---- MODULE Spec2Model ----
(***************************************************************************)
(* Temporal-expression resolution engine of paomateng:                     *)
(*   src/src/utils/date_utils.py      parse_resumption_time                *)
(*   src/src/parsers/content_parser.py ContentParser                       *)
(*                                                                         *)
(* A text is a sequence of one-character strings.  Every regular           *)
(* expression of the source is written as a sequence of nodes (Lit, Cls,   *)
(* Rep, Grp, Opt, Alt, NLB) and run by a backtracking matcher with the     *)
(* priorities of Python's re module (leftmost start, greedy or lazy        *)
(* repetition in order, alternatives in order).                            *)
(*                                                                         *)
(* Strings of a module are ASCII, so each character of the announcements   *)
(* is written by an ASCII name:                                            *)
(* 安=an 巴=ba 班=ban 暴=bao 本=ben 畢=bi 變=bian 駁=bo 佈=bu 布=bu2 不=bu4 部=bu5    *)
(* 柴=chai 常=chang 車=che 晨=chen 成=cheng 充=chong 出=chu 除=chu2 次=ci 措=cuo    *)
(* 大=da4 待=dai 單=dan 到=dao 道=dao4 的=de 地=di 點=dian 電=dian4 定=ding         *)
(* 訂=ding4 動=dong 斷=duan 、=dun 二=er 而=er2 發=fa 方=fang ：=fcolon ，=fcomma   *)
(* 分=fen 風=feng （=flparen ）=frparen 。=fstop 復=fu 服=fu2 概=gai 告=gao 各=ge   *)
(* 公=gong 供=gong2 估=gu 故=gu4 官=guan 軌=gui 豪=hao 號=hao4 後=hou 護=hu 恢=hui   *)
(* 會=hui4 計=ji 機=ji1 加=jia 間=jian 接=jie 結=jie2 今=jin 境=jing 局=ju 開=kai    *)
(* 況=kuang 立=li 離=li2 聯=lian 列=lie 凌=ling 六=liu 陸=lu 路=lu4 落=luo 每=mei    *)
(* 明=ming 末=mo 年=nian 排=pai 票=piao 期=qi 起=qi3 前=qian 搶=qiang 取=qu 區=qu1   *)
(* 全=quan 確=que 認=ren 日=ri 三=san 上=shang 稍=shao 生=sheng 時=shi 駛=shi3      *)
(* 試=shi4 視=shi5 施=shi6 士=shi7 石=shi8 始=shi9 首=shou 受=shou4 疏=shu 束=shu4  *)
(* 雙=shuang 水=shui 四=si 俟=si4 損=sun 台=tai 颱=tai2 坍=tan 提=ti 天=tian 鐵=tie  *)
(* 停=ting 通=tong 統=tong3 完=wan 晚=wan3 網=wang 維=wei 位=wei4 文=wen 午=wu      *)
(* 無=wu2 五=wu3 務=wu4 系=xi 息=xi2 下=xia 線=xian 向=xiang 響=xiang3 消=xiao      *)
(* 小=xiao3 效=xiao4 行=xing 修=xiu 休=xiu2 續=xu 訊=xun 淹=yan 一=yi 以=yi3 已=yi4  *)
(* 應=ying 營=ying2 影=ying3 油=you 預=yu 於=yu2 雨=yu3 虞=yu4 員=yuan 月=yue       *)
(* 運=yun 在=zai 暫=zan 站=zhan 障=zhang 震=zhen 正=zheng 之=zhi 止=zhi3 至=zhi4    *)
(* 誌=zhi5 中=zhong 轉=zhuan 狀=zhuang 資=zi 字=zi4 總=zong                      *)
(***************************************************************************)
EXTENDS Integers, Sequences, FiniteSets, TLC

VARIABLES text, title, publish_date, clock, pc, round, resolved, extracted, service, memo,
          given, data, master, backups, loaded, spc,
          lock, proc,
          http, mon

\* the variables of the resolver and the parser
pvars == <<text, title, publish_date, clock, pc, round, resolved, extracted, service, memo>>

\* the variables of the storage: the keyword arguments the announcements were
\* constructed from, the list in memory, data/master.json, data/backups, the
\* last result of load() and the position of the caller
svars == <<given, data, master, backups, loaded, spc>>

\* the variables of the processes that share data/master.json: the holder
\* of data/master.json.lock and, for each process, the storage call it runs
cvars == <<lock, proc>>

\* the HTTP client and the call of get it runs; the monitoring cycle
hvars == <<http>>
mvars == <<mon>>

vars == <<pvars, svars, cvars, hvars, mvars>>

\* what the calls of the parser leave alone
notp == <<svars, cvars, hvars, mvars>>

\* what the calls of the single storage caller leave alone
nots == <<pvars, cvars, hvars, mvars>>

\* what the processes leave alone
notc == <<pvars, given, data, loaded, spc, hvars, mvars>>

\* what the HTTP client leaves alone
noth == <<pvars, svars, cvars, mvars>>

\* what the monitoring cycle leaves alone
notm == <<pvars, given, data, loaded, spc, cvars, hvars>>

(***************************************************************************)
(* Characters and regular expressions                                      *)
(***************************************************************************)
Digits == {"0", "1", "2", "3", "4", "5", "6", "7", "8", "9"}

WS == {" "}

INF == 1000

Min(a, b) == IF a < b THEN a ELSE b

Max(a, b) == IF a > b THEN a ELSE b

Lit(s) == [t |-> "lit", s |-> s]

Cls(S) == [t |-> "cls", cs |-> S, neg |-> FALSE]

NCls(S) == [t |-> "cls", cs |-> S, neg |-> TRUE]

AnyC == NCls({"\n"})

Rep(c, lo, hi) == [t |-> "rep", c |-> c, lo |-> lo, hi |-> hi, lazy |-> FALSE]

RepLazy(c, lo, hi) == [t |-> "rep", c |-> c, lo |-> lo, hi |-> hi, lazy |-> TRUE]

Grp(n, sub) == [t |-> "grp", n |-> n, sub |-> sub]

Opt(sub) == [t |-> "opt", sub |-> sub]

Alt(subs) == [t |-> "alt", subs |-> subs]

NLB(S) == [t |-> "nlb", cs |-> S]

EndOfString == [t |-> "end"]

D == Cls(Digits)

D12 == Rep(D, 1, 2)

D2 == Rep(D, 2, 2)

DPlus == Rep(D, 1, INF)

TSep == Cls({"fcolon", ":", "shi"})

DotStarLazy == RepLazy(AnyC, 0, INF)

DotStar == Rep(AnyC, 0, INF)

NoCaps == <<<<0, 0>>, <<0, 0>>, <<0, 0>>, <<0, 0>>>>

Fail == [e |-> 0, c |-> NoCaps]

NoMatch == [s |-> 0, e |-> 0, c |-> NoCaps]

InCls(c, ch) == IF c.neg THEN ch \notin c.cs ELSE ch \in c.cs

\* how many characters from position i on, hi at most, are in the class c
Run(t, c, i, hi) ==
    LET On(lim, bad) == IF bad = {} THEN lim ELSE Min(lim, (CHOOSE k \in bad : \A j \in bad : k <= j) - 1)
    IN On(Max(0, Min(hi, Len(t) - i + 1)),
          {k \in 1..Min(hi, Len(t) - i + 1) : ~InCls(c, t[i + k - 1])})

RECURSIVE Match(_, _, _, _)
RECURSIVE TryRep(_, _, _, _, _, _, _)
RECURSIVE TryAlt(_, _, _, _, _)

\* the first way, in priority order, to match the node sequence st at position i
Match(t, st, i, caps) ==
    IF st = <<>> THEN [e |-> i, c |-> caps]
    ELSE LET h == Head(st)
             rest == Tail(st)
         IN CASE h.t = "lit" ->
                   IF i + Len(h.s) - 1 <= Len(t) /\ SubSeq(t, i, i + Len(h.s) - 1) = h.s
                   THEN Match(t, rest, i + Len(h.s), caps) ELSE Fail
              [] h.t = "cls" ->
                   IF i <= Len(t) /\ InCls(h, t[i])
                   THEN Match(t, rest, i + 1, caps) ELSE Fail
              [] h.t = "rep" ->
                   LET n == Run(t, h.c, i, h.hi)
                   IN IF n < h.lo THEN Fail
                      ELSE TryRep(t, rest, i, caps, h.lo, n, h.lazy)
              [] h.t = "grp" ->
                   Match(t, h.sub \o <<[t |-> "close", n |-> h.n, s0 |-> i]>> \o rest, i, caps)
              [] h.t = "close" ->
                   Match(t, rest, i, [caps EXCEPT ![h.n] = <<h.s0, i>>])
              [] h.t = "opt" ->
                   LET r == Match(t, h.sub \o rest, i, caps)
                   IN IF r.e # 0 THEN r ELSE Match(t, rest, i, caps)
              [] h.t = "alt" -> TryAlt(t, h.subs, rest, i, caps)
              [] h.t = "nlb" ->
                   IF i > 1 /\ t[i - 1] \in h.cs THEN Fail ELSE Match(t, rest, i, caps)
              [] h.t = "end" ->
                   IF i = Len(t) + 1 THEN Match(t, rest, i, caps) ELSE Fail

\* a repetition of lo to n characters followed by rest: the fewest characters
\* first when lazy, the most first when greedy
TryRep(t, rest, i, caps, lo, n, lazy) ==
    LET First(hits) ==
            IF hits = {} THEN Fail
            ELSE (CHOOSE p \in hits :
                      \A q \in hits : IF lazy THEN p[1] <= q[1] ELSE p[1] >= q[1])[2]
        On(rs) == First({p \in rs : p[2].e # 0})
    IN On({<<c, Match(t, rest, i + c, caps)>> : c \in lo..n})

TryAlt(t, subs, rest, i, caps) ==
    IF subs = <<>> THEN Fail
    ELSE LET r == Match(t, Head(subs) \o rest, i, caps)
         IN IF r.e # 0 THEN r ELSE TryAlt(t, Tail(subs), rest, i, caps)

\* re.search from position from (1-based): the leftmost match, or NoMatch
SearchFrom(t, re, from) ==
    LET At(p) == [s |-> p[1], e |-> p[2].e, c |-> p[2].c]
        First(hits) ==
            IF hits = {} THEN NoMatch
            ELSE At(CHOOSE p \in hits : \A q \in hits : p[1] <= q[1])
        On(rs) == First({p \in rs : p[2].e # 0})
    IN On({<<j, Match(t, re, j, NoCaps)>> : j \in from..(Len(t) + 1)})

Search(t, re) == SearchFrom(t, re, 1)

Found(t, re) == Search(t, re).s # 0

\* re.finditer: the non-overlapping matches, left to right
RECURSIVE FindIter(_, _, _)
FindIter(t, re, from) ==
    LET On(m) ==
            IF m.s = 0 THEN <<>>
            ELSE <<m>> \o FindIter(t, re, IF m.e = m.s THEN m.e + 1 ELSE m.e)
    IN On(SearchFrom(t, re, from))

\* re.sub(re, '', t)
RECURSIVE ReSubEmpty(_, _, _)
ReSubEmpty(t, re, from) ==
    LET On(m) ==
            IF m.s = 0 THEN SubSeq(t, from, Len(t))
            ELSE SubSeq(t, from, m.s - 1) \o ReSubEmpty(t, re, IF m.e = m.s THEN m.e + 1 ELSE m.e)
    IN On(SearchFrom(t, re, from))

\* kw in t
Contains(t, kw) ==
    \E i \in 1..(Len(t) - Len(kw) + 1) : SubSeq(t, i, i + Len(kw) - 1) = kw

AnyIn(t, kws) == \E kw \in kws : Contains(t, kw)

HasGroup(m, n) == m.c[n][1] # 0

Group(t, m, n) == SubSeq(t, m.c[n][1], m.c[n][2] - 1)

Group0(t, m) == SubSeq(t, m.s, m.e - 1)

DigitVal(ch) ==
    CASE ch = "0" -> 0 [] ch = "1" -> 1 [] ch = "2" -> 2 [] ch = "3" -> 3
      [] ch = "4" -> 4 [] ch = "5" -> 5 [] ch = "6" -> 6 [] ch = "7" -> 7
      [] ch = "8" -> 8 [] ch = "9" -> 9

\* int(s) for a string of decimal digits
RECURSIVE ToInt(_)
ToInt(s) == IF s = <<>> THEN 0 ELSE 10 * ToInt(SubSeq(s, 1, Len(s) - 1)) + DigitVal(s[Len(s)])

IntGroup(t, m, n) == ToInt(Group(t, m, n))

\* int(match.group(n)) if match.group(n) else 0
IntGroupOr0(t, m, n) == IF HasGroup(m, n) THEN IntGroup(t, m, n) ELSE 0

\* text[match.end():min(len(text), match.end()+n)]
After(t, m, n) == SubSeq(t, m.e, Min(Len(t), m.e - 1 + n))

\* text[max(0, match.start()-n):match.start()]
Before(t, m, n) == SubSeq(t, Max(1, m.s - n), m.s - 1)

\* text[max(0, match.start()-a):min(len(text), match.end()+b)]
Around(t, m, a, b) == SubSeq(t, Max(1, m.s - a), Min(Len(t), m.e - 1 + b))

(***************************************************************************)
(* datetime: the values of datetime, strptime, replace, timedelta          *)
(***************************************************************************)
\* TAIPEI_TZ = ZoneInfo("Asia/Taipei")
TAIPEI_TZ == "Asia/Taipei"

NoDT == [y |-> 0, mo |-> 0, d |-> 0, h |-> 0, mi |-> 0, s |-> 0, tz |-> "-"]

\* what a statement does: return a datetime, return None, raise, or fall
\* through to the next statement
Ret(dt) == [k |-> "ret", dt |-> dt]

None == [k |-> "none", dt |-> NoDT]

Raise == [k |-> "raise", dt |-> NoDT]

Fall == [k |-> "fall", dt |-> NoDT]

IsLeap(y) == (y % 4 = 0 /\ y % 100 # 0) \/ y % 400 = 0

DaysInMonth(y, mo) ==
    IF mo \in {4, 6, 9, 11} THEN 30
    ELSE IF mo = 2 THEN (IF IsLeap(y) THEN 29 ELSE 28)
    ELSE 31

ValidDate(y, mo, d) == y >= 1 /\ y <= 9999 /\ mo \in 1..12 /\ d >= 1 /\ d <= DaysInMonth(y, mo)

ValidTime(h, mi, s) == h \in 0..23 /\ mi \in 0..59 /\ s \in 0..59

\* datetime(y, mo, d, h, mi, tzinfo=TAIPEI_TZ): ValueError on a field out of range
MkDateTime(y, mo, d, h, mi) ==
    IF ValidDate(y, mo, d) /\ ValidTime(h, mi, 0)
    THEN Ret([y |-> y, mo |-> mo, d |-> d, h |-> h, mi |-> mi, s |-> 0, tz |-> TAIPEI_TZ])
    ELSE Raise

\* dt.replace(hour=h, minute=mi, second=s, microsecond=0)
ReplaceTime(dt, h, mi, s) ==
    IF ValidTime(h, mi, s)
    THEN Ret([dt EXCEPT !.h = h, !.mi = mi, !.s = s])
    ELSE Raise

\* dt.replace(day=d, hour=h, minute=mi, second=0, microsecond=0)
ReplaceDayTime(dt, d, h, mi) ==
    IF ValidDate(dt.y, dt.mo, d) /\ ValidTime(h, mi, 0)
    THEN Ret([dt EXCEPT !.d = d, !.h = h, !.mi = mi, !.s = 0])
    ELSE Raise

\* dt + timedelta(days=1)
PlusOneDay(dt) ==
    IF dt.d < DaysInMonth(dt.y, dt.mo) THEN [dt EXCEPT !.d = dt.d + 1]
    ELSE IF dt.mo < 12 THEN [dt EXCEPT !.d = 1, !.mo = dt.mo + 1]
    ELSE [dt EXCEPT !.d = 1, !.mo = 1, !.y = dt.y + 1]

\* a < b for two datetimes of the same zone
DTLess(a, b) ==
    \/ a.y < b.y
    \/ a.y = b.y /\ a.mo < b.mo
    \/ a.y = b.y /\ a.mo = b.mo /\ a.d < b.d
    \/ a.y = b.y /\ a.mo = b.mo /\ a.d = b.d /\ a.h < b.h
    \/ a.y = b.y /\ a.mo = b.mo /\ a.d = b.d /\ a.h = b.h /\ a.mi < b.mi
    \/ a.y = b.y /\ a.mo = b.mo /\ a.d = b.d /\ a.h = b.h /\ a.mi = b.mi /\ a.s < b.s

\* a reference date taken from the system clock once it has advanced, instead
\* of publish_date
ClockDate(pd) ==
    IF clock = 0 THEN [i \in 1..Len(pd) |-> IF pd[i] = "/" THEN "-" ELSE pd[i]]
    ELSE <<"2", "0", "2", "5", "-", "0", "8", "-", "1", "4">>

\* publish_date.replace("/", "-")
ReplaceSlash(pd) == [i \in 1..Len(pd) |-> IF pd[i] = "/" THEN "-" ELSE pd[i]]

\* the regular expression strptime builds for "%Y-%m-%d"
StrptimeRe ==
    <<Grp(1, <<Rep(D, 4, 4)>>), Lit(<<"-">>),
      Grp(2, <<Alt(<< <<Lit(<<"1">>), Cls({"0", "1", "2"})>>,
                      <<Lit(<<"0">>), Cls({"1", "2", "3", "4", "5", "6", "7", "8", "9"})>>,
                      <<Cls({"1", "2", "3", "4", "5", "6", "7", "8", "9"})>> >>)>>), Lit(<<"-">>),
      Grp(3, <<Alt(<< <<Lit(<<"3">>), Cls({"0", "1"})>>,
                      <<Cls({"1", "2"}), D>>,
                      <<Lit(<<"0">>), Cls({"1", "2", "3", "4", "5", "6", "7", "8", "9"})>>,
                      <<Cls({"1", "2", "3", "4", "5", "6", "7", "8", "9"})>>,
                      <<Lit(<<" ">>), Cls({"1", "2", "3", "4", "5", "6", "7", "8", "9"})>> >>)>>)>>

\* datetime.strptime(s, "%Y-%m-%d").replace(tzinfo=TAIPEI_TZ)
Strptime(s) ==
    LET On(r) ==
            IF r.e = 0 \/ r.e # Len(s) + 1 THEN Raise
            ELSE LET m == [s |-> 1, e |-> r.e, c |-> r.c]
                     dtxt == Group(s, m, 3)
                     dd == IF Head(dtxt) = " " THEN ToInt(Tail(dtxt)) ELSE ToInt(dtxt)
                 IN MkDateTime(IntGroup(s, m, 1), IntGroup(s, m, 2), dd, 0, 0)
    IN On(Match(s, StrptimeRe, 1, NoCaps))

(***************************************************************************)
(* date_utils.parse_resumption_time                                        *)
(***************************************************************************)
\* r'發[佈布]日期[：:]\s*\d{4}[/\-年]\d{1,2}[/\-月]\d{1,2}日?(?:\s*[上下]午)?\s*\d{1,2}[：:]\d{2}'
AdminTail ==
    <<Cls({"fcolon", ":"}), Rep(Cls(WS), 0, INF), Rep(D, 4, 4), Cls({"/", "-", "nian"}), D12, Cls({"/", "-", "yue"}), D12,
      Rep(Cls({"ri"}), 0, 1), Opt(<<Rep(Cls(WS), 0, INF), Cls({"shang", "xia"}), Lit(<<"wu">>)>>),
      Rep(Cls(WS), 0, INF), D12, Cls({"fcolon", ":"}), D2>>

publish_clause == <<Lit(<<"fa">>), Cls({"bu", "bu2"}), Lit(<<"ri", "qi">>)>> \o AdminTail

\* r'發生時間[：:]\s*\d{4}[/\-年]...'
incident_clause == <<Lit(<<"fa", "sheng", "shi", "jian">>)>> \o AdminTail

\* the two re.sub calls that strip the administrative timestamps
StripAdmin(t) == ReSubEmpty(ReSubEmpty(t, publish_clause, 1), incident_clause, 1)

\* r'預[計估][\s]?(\d{1,2})[：:時](\d{2})?'
prediction_pattern ==
    <<Lit(<<"yu">>), Cls({"ji", "gu"}), Rep(Cls(WS), 0, 1), Grp(1, <<D12>>), TSep, Opt(<<Grp(2, <<D2>>)>>)>>

\* r'\([^)]*次\).*?到.*?站'
train_arrival ==
    <<Lit(<<"(">>), Rep(NCls({")"}), 0, INF), Lit(<<"ci", ")">>), DotStarLazy, Lit(<<"dao">>), DotStarLazy, Lit(<<"zhan">>)>>

\* r'首班車.*?恢復' or r'恢復.*?首班車'
HasFirstTrainResumption(t) ==
    \/ Found(t, <<Lit(<<"shou", "ban", "che">>), DotStarLazy, Lit(<<"hui", "fu">>)>>)
    \/ Found(t, <<Lit(<<"hui", "fu">>), DotStarLazy, Lit(<<"shou", "ban", "che">>)>>)

\* hour == 24: tomorrow.replace(hour=0, ...), else ref_date.replace(hour=hour, ...)
ClockOn(ref, hour, minute) ==
    IF hour = 24 THEN ReplaceTime(PlusOneDay(ref), 0, minute, 0)
    ELSE ReplaceTime(ref, hour, minute, 0)

\* Pattern 0: 預計X時 / 預估X時
Pattern0(t, ref) ==
    LET On(m) ==
            IF m.s = 0 THEN Fall
            ELSE IF Found(After(t, m, 50), train_arrival) THEN Fall
            ELSE IF HasFirstTrainResumption(t) THEN Fall
            ELSE ClockOn(ref, IntGroup(t, m, 1), IntGroupOr0(t, m, 2))
    IN On(Search(t, prediction_pattern))

\* r'[今本]日\s*(\d{1,2})[：:時](\d{2})?'
pattern1 ==
    <<Cls({"jin", "ben"}), Lit(<<"ri">>), Rep(Cls(WS), 0, INF), Grp(1, <<D12>>), TSep, Opt(<<Grp(2, <<D2>>)>>)>>

exclusion_keywords_1 == {<<"fa", "bu2">>, <<"fa", "che">>, <<"kai", "che">>, <<"dao", "zhan">>, <<"cheng", "li">>, <<"ying", "bian">>, <<"hou", "ting", "shi3">>}

\* Pattern 1: 今日/本日 HH:MM
Pattern1(t, ref) ==
    LET On(m) ==
            IF m.s = 0 THEN Fall
            ELSE IF AnyIn(After(t, m, 20), exclusion_keywords_1) THEN Fall
            ELSE ClockOn(ref, IntGroup(t, m, 1), IntGroupOr0(t, m, 2))
    IN On(Search(t, pattern1))

\* r'今\((\d+)\)日\s*(\d{1,2})[：:時](\d{2})?'
pattern1_5 ==
    <<Lit(<<"jin", "(">>), Grp(1, <<DPlus>>), Lit(<<")", "ri">>), Rep(Cls(WS), 0, INF), Grp(2, <<D12>>), TSep,
      Opt(<<Grp(3, <<D2>>)>>)>>

exclusion_keywords_1_5 ==
    {<<"fa", "bu2">>, <<"fa", "che">>, <<"kai", "che">>, <<"dao", "zhan">>, <<"cheng", "li">>, <<"ying", "bian">>, <<"ting", "shi3">>, <<"hou">>, <<"qian">>, <<"shi4", "yun", "zhuan">>, <<"wan", "cheng", "shi4", "che">>}

\* Pattern 1.5: 今(X)日 HH:MM; a ValueError of replace falls through
Pattern1_5(t, ref) ==
    LET On(m) ==
            IF m.s = 0 THEN Fall
            ELSE IF AnyIn(After(t, m, 50), exclusion_keywords_1_5) THEN Fall
            ELSE LET r == ReplaceDayTime(ref, IntGroup(t, m, 1), IntGroup(t, m, 2), IntGroupOr0(t, m, 3))
                 IN IF r.k = "raise" THEN Fall ELSE r
    IN On(Search(t, pattern1_5))

\* r'明(?:\((\d+)\))?日\s*(\d{1,2})[：:時](\d{2})?'
pattern2 ==
    <<Lit(<<"ming">>), Opt(<<Lit(<<"(">>), Grp(1, <<DPlus>>), Lit(<<")">>)>>), Lit(<<"ri">>), Rep(Cls(WS), 0, INF),
      Grp(2, <<D12>>), TSep, Opt(<<Grp(3, <<D2>>)>>)>>

exclusions_2 == {<<"qian", "ting", "shi3">>, <<"qian", "bu4", "tong">>, <<"qian", "zhi">>, <<"qian", "de">>, <<"zi", "xun">>, <<"fa", "bu2">>}

\* Pattern 2 as it would be if an invalid 明(X)日 date discarded the match
Pattern2Discarding(t, ref) ==
    LET On(m) ==
            IF m.s = 0 THEN Fall
            ELSE IF AnyIn(SubSeq(t, m.e, Min(Len(t), m.e - 1 + 15)), exclusions_2) THEN Fall
            ELSE LET hour == IntGroup(t, m, 2)
                     minute == IntGroupOr0(t, m, 3)
                     r == IF HasGroup(m, 1) THEN ReplaceDayTime(ref, IntGroup(t, m, 1), hour, minute)
                          ELSE Raise
                 IN IF HasGroup(m, 1) THEN (IF r.k = "ret" THEN r ELSE Fall)
                    ELSE ReplaceTime(PlusOneDay(ref), hour, minute, 0)
    IN On(Search(t, pattern2))

\* Pattern 2: 明日 HH:MM or 明(X)日HH:MM; an invalid 明(X)日 date falls
\* through to the default tomorrow
Pattern2(t, ref) ==
    LET On(m) ==
            IF m.s = 0 THEN Fall
            ELSE IF AnyIn(SubSeq(t, m.e, Min(Len(t), m.e - 1 + 15)), exclusions_2) THEN Fall
            ELSE LET hour == IntGroup(t, m, 2)
                     minute == IntGroupOr0(t, m, 3)
                     r == IF HasGroup(m, 1) THEN ReplaceDayTime(ref, IntGroup(t, m, 1), hour, minute)
                          ELSE Raise
                 IN IF HasGroup(m, 1) /\ r.k = "ret" THEN r
                    ELSE ReplaceTime(PlusOneDay(ref), hour, minute, 0)
    IN On(Search(t, pattern2))

\* r'明(?:\((\d+)\))?日.{0,10}?首班車' and the same with 末班車
TomorrowTrainRe(train) ==
    <<Lit(<<"ming">>), Opt(<<Lit(<<"(">>), Grp(1, <<DPlus>>), Lit(<<")">>)>>), Lit(<<"ri">>),
      RepLazy(AnyC, 0, 10), Lit(train)>>

\* r'今日.{0,10}?首班車' and the same with 末班車
TodayTrainRe(train) == <<Lit(<<"jin", "ri">>), RepLazy(AnyC, 0, 10), Lit(train)>>

\* 明日首班車 / 明(X)日首班車 at hour:minute; an invalid 明(X)日 date falls
\* through to the regular tomorrow
TomorrowTrain(t, ref, train, hour, minute) ==
    LET On(m) ==
            LET r == IF HasGroup(m, 1) THEN ReplaceDayTime(ref, IntGroup(t, m, 1), hour, minute) ELSE Raise
            IN IF m.s = 0 THEN Fall
               ELSE IF HasGroup(m, 1) /\ r.k = "ret" THEN r
               ELSE ReplaceTime(PlusOneDay(ref), hour, minute, 0)
    IN On(Search(t, TomorrowTrainRe(train)))

\* Pattern 2.5, first part: 明日首班車 (5:30)
Pattern2_5_tomorrow(t, ref) == TomorrowTrain(t, ref, <<"shou", "ban", "che">>, 5, 30)

\* Pattern 2.5, second part: 今日首班車 unless 接駁 follows within 30
Pattern2_5_today(t, ref) ==
    LET On(m) ==
            IF m.s = 0 THEN Fall
            ELSE IF Contains(After(t, m, 30), <<"jie", "bo">>) THEN Fall
            ELSE ReplaceTime(ref, 5, 30, 0)
    IN On(Search(t, TodayTrainRe(<<"shou", "ban", "che">>)))

\* r'(\d{1,2})月(\d{1,2})日(?:\([一二三四五六日]\))?.{0,10}?首班車'
first_train_pattern ==
    <<Grp(1, <<D12>>), Lit(<<"yue">>), Grp(2, <<D12>>), Lit(<<"ri">>),
      Opt(<<Lit(<<"(">>), Cls({"yi", "er", "san", "si", "wu3", "liu", "ri"}), Lit(<<")">>)>>), RepLazy(AnyC, 0, 10), Lit(<<"shou", "ban", "che">>)>>

\* Pattern 2.5, third part: M月D日首班車, only today or future
Pattern2_5_month_day(t, ref) ==
    LET On(m) ==
            LET r == MkDateTime(ref.y, IntGroup(t, m, 1), IntGroup(t, m, 2), 5, 30)
            IN IF m.s = 0 THEN Fall
               ELSE IF r.k = "ret" /\ ~DTLess(r.dt, ref) THEN r
               ELSE Fall
    IN On(Search(t, first_train_pattern))

\* Pattern 2.6: 明日末班車 (23:30)
Pattern2_6_tomorrow(t, ref) == TomorrowTrain(t, ref, <<"mo", "ban", "che">>, 23, 30)

\* Pattern 2.6: 今日末班車
Pattern2_6_today(t, ref) ==
    IF Found(t, TodayTrainRe(<<"mo", "ban", "che">>)) THEN ReplaceTime(ref, 23, 30, 0) ELSE Fall

\* r'(\d{1,2})月(\d{1,2})日至(\d{1,2})月(\d{1,2})日.{0,20}?(?:暫停|停駛|停運|不通)'
date_range_pattern ==
    <<Grp(1, <<D12>>), Lit(<<"yue">>), Grp(2, <<D12>>), Lit(<<"ri", "zhi4">>), Grp(3, <<D12>>), Lit(<<"yue">>),
      Grp(4, <<D12>>), Lit(<<"ri">>), RepLazy(AnyC, 0, 20),
      Alt(<< <<Lit(<<"zan", "ting">>)>>, <<Lit(<<"ting", "shi3">>)>>, <<Lit(<<"ting", "yun">>)>>, <<Lit(<<"bu4", "tong">>)>> >>)>>

\* a Pattern 2.65 without the "only if today or future" test
Pattern2_65Unchecked(t, ref) ==
    LET On(m) ==
            LET r == MkDateTime(ref.y, IntGroup(t, m, 3), IntGroup(t, m, 4), 23, 59)
            IN IF m.s = 0 THEN Fall
               ELSE IF r.k = "ret" THEN r
               ELSE Fall
    IN On(Search(t, date_range_pattern))

\* Pattern 2.65: the end date of a suspension range, at 23:59
Pattern2_65(t, ref) ==
    LET On(m) ==
            LET r == MkDateTime(ref.y, IntGroup(t, m, 3), IntGroup(t, m, 4), 23, 59)
            IN IF m.s = 0 THEN Fall
               ELSE IF r.k = "ret" /\ ~DTLess(r.dt, ref) THEN r
               ELSE Fall
    IN On(Search(t, date_range_pattern))

\* r'(\d{1,2})[時點]前([^後]{0,50}?)(?:停駛|不通)'
stop_before_pattern ==
    <<Grp(1, <<D12>>), Cls({"shi", "dian"}), Lit(<<"qian">>), Grp(2, <<RepLazy(NCls({"hou"}), 0, 50)>>),
      Alt(<< <<Lit(<<"ting", "shi3">>)>>, <<Lit(<<"bu4", "tong">>)>> >>)>>

\* r'俟.*?後', r'陸續.*?恢復', r'視.*?而定', r'待.*?確認'
uncertainty_patterns ==
    << <<Lit(<<"si4">>), DotStarLazy, Lit(<<"hou">>)>>,
       <<Lit(<<"lu", "xu">>), DotStarLazy, Lit(<<"hui", "fu">>)>>,
       <<Lit(<<"shi5">>), DotStarLazy, Lit(<<"er2", "ding">>)>>,
       <<Lit(<<"dai">>), DotStarLazy, Lit(<<"que", "ren">>)>> >>

\* r'明\((\d{1,2})\)日'
paren_date_re == <<Lit(<<"ming", "(">>), Grp(1, <<D12>>), Lit(<<")", "ri">>)>>

\* r'(?<!今)(?<!明)(\d{1,2})日'
explicit_day_re == <<NLB({"jin"}), NLB({"ming"}), Grp(1, <<D12>>), Lit(<<"ri">>)>>

\* result + timedelta(days=1) if add_one_day
AddDayIf(r, add_one_day) ==
    IF add_one_day /\ r.k = "ret" THEN Ret(PlusOneDay(r.dt)) ELSE r

\* the day an 'X時前' / 'X時以前' phrase refers to, from the 100 characters
\* before it: 明(X)日, then an explicit X日, then 明日, then today.
DayContext(t, m, ref, hour, add_one_day) ==
    LET On(context, paren_date, explicit_day) ==
            LET r1 == ReplaceDayTime(ref, IntGroup(context, paren_date, 1), hour, 0)
                r2 == AddDayIf(ReplaceDayTime(ref, IntGroup(context, explicit_day, 1), hour, 0),
                               add_one_day)
            IN IF paren_date.s # 0 /\ r1.k = "ret" THEN AddDayIf(r1, add_one_day)
               ELSE IF explicit_day.s # 0 /\ r2.k = "ret" /\ ~DTLess(r2.dt, ref) THEN r2
               ELSE IF Contains(context, <<"ming", "ri">>) /\ paren_date.s = 0
                    THEN AddDayIf(ReplaceTime(PlusOneDay(ref), hour, 0, 0), add_one_day)
               ELSE AddDayIf(ReplaceTime(ref, hour, 0, 0), add_one_day)
    IN On(Before(t, m, 100), Search(Before(t, m, 100), paren_date_re),
          Search(Before(t, m, 100), explicit_day_re))

\* Pattern 2.7: X時前停駛 means X時恢復, unless the resumption is uncertain
Pattern2_7(t, ref) ==
    LET On(m) ==
            LET hour == IntGroup(t, m, 1)
            IN IF m.s = 0 THEN Fall
               ELSE IF \E i \in 1..Len(uncertainty_patterns) : Found(After(t, m, 100), uncertainty_patterns[i])
                    THEN Fall
               ELSE DayContext(t, m, ref, IF hour = 24 THEN 0 ELSE hour, hour = 24)
    IN On(Search(t, stop_before_pattern))

\* r'(\d{1,2})[時點]以[前後].*?(?:停駛|不通|正常)'
before_after_pattern ==
    <<Grp(1, <<D12>>), Cls({"shi", "dian"}), Lit(<<"yi3">>), Cls({"qian", "hou"}), DotStarLazy,
      Alt(<< <<Lit(<<"ting", "shi3">>)>>, <<Lit(<<"bu4", "tong">>)>>, <<Lit(<<"zheng", "chang">>)>> >>)>>

\* Pattern 2.9: X時以前/以後 with a suspension verb; 以前正常 is no resumption
Pattern2_9(t, ref) ==
    LET On(m) ==
            LET matched_text == Group0(t, m)
            IN IF m.s = 0 THEN Fall
               ELSE IF Contains(matched_text, <<"zheng", "chang">>)
                       /\ ~(Contains(matched_text, <<"ting", "shi3">>) \/ Contains(matched_text, <<"bu4", "tong">>))
                    THEN Fall
               ELSE DayContext(t, m, ref, IntGroup(t, m, 1), FALSE)
    IN On(Search(t, before_after_pattern))

\* (hour, minute) tuples compare lexicographically
TupleLess(a, b) == a[1] < b[1] \/ (a[1] = b[1] /\ a[2] < b[2])

\* the earliest of a sequence of (hour, minute) tuples; <<>> for none
RECURSIVE Earliest(_)
Earliest(times) ==
    IF times = <<>> THEN <<>>
    ELSE LET rest == Earliest(Tail(times))
         IN IF rest = <<>> \/ ~TupleLess(rest, Head(times)) THEN Head(times) ELSE rest

\* r'(?:於|預計)?[\s]?(\d{1,2})[：:時](\d{2})?.{0,10}?恢復(?:單線)?(?:雙向)?通車'
recovery_forward ==
    <<Opt(<<Alt(<< <<Lit(<<"yu2">>)>>, <<Lit(<<"yu", "ji">>)>> >>)>>), Rep(Cls(WS), 0, 1), Grp(1, <<D12>>), TSep,
      Opt(<<Grp(2, <<D2>>)>>), RepLazy(AnyC, 0, 10), Lit(<<"hui", "fu">>), Opt(<<Lit(<<"dan", "xian">>)>>),
      Opt(<<Lit(<<"shuang", "xiang">>)>>), Lit(<<"tong", "che">>)>>

\* r'恢復(?:單線)?(?:雙向)?通車.{0,10}?(\d{1,2})[：:時](\d{2})?'
recovery_backward ==
    <<Lit(<<"hui", "fu">>), Opt(<<Lit(<<"dan", "xian">>)>>), Opt(<<Lit(<<"shuang", "xiang">>)>>), Lit(<<"tong", "che">>), RepLazy(AnyC, 0, 10),
      Grp(1, <<D12>>), TSep, Opt(<<Grp(2, <<D2>>)>>)>>

\* the (hour, minute) of the matches of one recovery pattern not near 接駁
RECURSIVE RecoveryTimes(_, _)
RecoveryTimes(t, ms) ==
    IF ms = <<>> THEN <<>>
    ELSE LET m == Head(ms)
         IN (IF Contains(Around(t, m, 20, 20), <<"jie", "bo">>) THEN <<>>
             ELSE << <<IntGroup(t, m, 1), IntGroupOr0(t, m, 2)>> >>)
            \o RecoveryTimes(t, Tail(ms))

\* Pattern 2.10: 恢復通車 with a time, the earliest of all matches
Pattern2_10(t, ref) ==
    LET On(earliest_time) ==
            IF earliest_time = <<>> THEN Fall
            ELSE ClockOn(ref, earliest_time[1], earliest_time[2])
    IN On(Earliest(RecoveryTimes(t, FindIter(t, recovery_forward, 1))
                   \o RecoveryTimes(t, FindIter(t, recovery_backward, 1))))

\* r'預估至[\s]?(\d{1,2})[時點]止'
estimated_until_pattern ==
    <<Lit(<<"yu", "gu", "zhi4">>), Rep(Cls(WS), 0, 1), Grp(1, <<D12>>), Cls({"shi", "dian"}), Lit(<<"zhi3">>)>>

suspension_keywords == {<<"zhong", "duan">>, <<"bu4", "tong">>, <<"ting", "shi3">>, <<"ying3", "xiang3">>, <<"qiang", "xiu">>, <<"jie", "bo">>, <<"xing", "shi3">>}

\* Pattern 2.11: 預估至X時止 near a suspension keyword
Pattern2_11(t, ref) ==
    LET On(m) ==
            IF m.s = 0 THEN Fall
            ELSE IF AnyIn(Around(t, m, 50, 50), suspension_keywords)
                 THEN ClockOn(ref, IntGroup(t, m, 1), 0)
            ELSE Fall
    IN On(Search(t, estimated_until_pattern))

resumption_keywords_p3 == <<<<"yu", "ji">>, <<"hui", "fu">>, <<"fu", "shi3">>, <<"tong", "che">>, <<"xiu", "fu", "wan", "cheng">>, <<"ying2", "yun">>>>

\* rf'{keyword}.{{0,30}}?(\d{{1,2}})月(\d{{1,2}})日(?:[凌上下午首末班車\s]{{0,10}})?(\d{{1,2}})[時:](\d{{2}})?'
pattern3(keyword) ==
    <<Lit(keyword), RepLazy(AnyC, 0, 30), Grp(1, <<D12>>), Lit(<<"yue">>), Grp(2, <<D12>>), Lit(<<"ri">>),
      Opt(<<Rep(Cls({"ling", "shang", "xia", "wu", "shou", "mo", "ban", "che"} \cup WS), 0, 10)>>), Grp(3, <<D12>>), Cls({"shi", ":"}),
      Opt(<<Grp(4, <<D2>>)>>)>>

exclusion_keywords_3 == {<<"fa", "sheng">>, <<"di", "zhen">>, <<"ying3", "xiang3">>, <<"yan", "shui">>, <<"tan", "fang">>, <<"zhong", "duan">>}

\* Pattern 3: M月D日 HH時 after a resumption keyword, keyword by keyword
RECURSIVE Pattern3From(_, _, _)
Pattern3From(t, ref, n) ==
    IF n > Len(resumption_keywords_p3) THEN Fall
    ELSE LET On(m) ==
                 LET r == MkDateTime(ref.y, IntGroup(t, m, 1), IntGroup(t, m, 2), IntGroup(t, m, 3),
                                     IntGroupOr0(t, m, 4))
                 IN IF m.s # 0 /\ ~AnyIn(After(t, m, 20), exclusion_keywords_3)
                       /\ r.k = "ret" /\ ~DTLess(r.dt, ref)
                    THEN r
                    ELSE Pattern3From(t, ref, n + 1)
         IN On(Search(t, pattern3(resumption_keywords_p3[n])))

Pattern3(t, ref) == Pattern3From(t, ref, 1)

\* '陸續', '俟', '待.*?確認', '視.*?而定', '機動', '暫定' anywhere in the text
has_uncertainty(t) ==
    \/ AnyIn(t, {<<"lu", "xu">>, <<"si4">>, <<"ji1", "dong">>, <<"zan", "ding">>})
    \/ Found(t, <<Lit(<<"dai">>), DotStarLazy, Lit(<<"que", "ren">>)>>)
    \/ Found(t, <<Lit(<<"shi5">>), DotStarLazy, Lit(<<"er2", "ding">>)>>)

resumption_indicators == {<<"hui", "fu", "tong", "che">>, <<"hui", "fu", "xing", "shi3">>, <<"hui", "fu", "ying2", "yun">>}

\* a Pattern 4 that does not ask for 今日
Pattern4AnyDay(t, ref) ==
    IF ~Found(t, pattern1) /\ ~has_uncertainty(t) /\ AnyIn(t, resumption_indicators)
    THEN ReplaceTime(ref, 23, 59, 59)
    ELSE Fall

\* Pattern 4: 今日恢復 without a time: 23:59:59 of the reference day
Pattern4(t, ref) ==
    IF Contains(t, <<"jin", "ri">>) /\ ~Found(t, pattern1)
       /\ ~has_uncertainty(t) /\ AnyIn(t, resumption_indicators)
    THEN ReplaceTime(ref, 23, 59, 59)
    ELSE Fall

\* Pattern 5: 明日恢復 without a time: 23:59:59 of the next day
Pattern5(t, ref) ==
    IF Found(t, <<Lit(<<"ming">>), Opt(<<Lit(<<"(">>), DPlus, Lit(<<")">>)>>), Lit(<<"ri">>)>>) /\ ~Found(t, pattern2)
       /\ ~Found(t, <<Cls({"shou", "mo"}), Lit(<<"ban", "che">>)>>)
       /\ ~has_uncertainty(t) /\ AnyIn(t, resumption_indicators)
    THEN ReplaceTime(PlusOneDay(ref), 23, 59, 59)
    ELSE Fall

\* Pattern 6: 凌晨 is 5:00, of the next day with 明日/明天
Pattern6(t, ref) ==
    IF ~Contains(t, <<"ling", "chen">>) THEN Fall
    ELSE IF Contains(t, <<"ming", "ri">>) \/ Contains(t, <<"ming", "tian">>) THEN ReplaceTime(PlusOneDay(ref), 5, 0, 0)
    ELSE ReplaceTime(ref, 5, 0, 0)

\* the resumption keywords of Pattern 7, simple ones first, then
\* '預計.{0,20}?恢復', '預計.{0,20}?復駛', '預計.{0,20}?通車', '預計.{0,20}?搶通'
resumption_keywords ==
    << <<Lit(<<"yu", "ji">>)>>, <<Lit(<<"qiang", "tong">>)>>, <<Lit(<<"xiu", "fu", "wan", "cheng">>)>>, <<Lit(<<"qiang", "xiu", "wan", "cheng">>)>>,
       <<Lit(<<"qiang", "xiu", "wan", "bi">>)>>, <<Lit(<<"hui", "fu">>)>>, <<Lit(<<"fu", "shi3">>)>>, <<Lit(<<"tong", "che">>)>>, <<Lit(<<"ying2", "yun">>)>>,
       <<Lit(<<"yu", "ji">>), RepLazy(AnyC, 0, 20), Lit(<<"hui", "fu">>)>>,
       <<Lit(<<"yu", "ji">>), RepLazy(AnyC, 0, 20), Lit(<<"fu", "shi3">>)>>,
       <<Lit(<<"yu", "ji">>), RepLazy(AnyC, 0, 20), Lit(<<"tong", "che">>)>>,
       <<Lit(<<"yu", "ji">>), RepLazy(AnyC, 0, 20), Lit(<<"qiang", "tong">>)>> >>

\* rf'{keyword}.{{0,10}}?(\d{{1,2}})[：:時](\d{{2}})'
forward_pattern(keyword) == keyword \o <<RepLazy(AnyC, 0, 10), Grp(1, <<D12>>), TSep, Grp(2, <<D2>>)>>

\* rf'(\d{{1,2}})[：:時](\d{{2}}).{{0,10}}?{keyword}'
backward_pattern(keyword) == <<Grp(1, <<D12>>), TSep, Grp(2, <<D2>>), RepLazy(AnyC, 0, 10)>> \o keyword

\* r'接駁', r'完成試車', r'試運轉', r'完成.*?試運轉'
proximity_exclusions ==
    << <<Lit(<<"jie", "bo">>)>>, <<Lit(<<"wan", "cheng", "shi4", "che">>)>>, <<Lit(<<"shi4", "yun", "zhuan">>)>>,
       <<Lit(<<"wan", "cheng">>), DotStarLazy, Lit(<<"shi4", "yun", "zhuan">>)>> >>

\* train schedules, establishments, departures, arrivals, suspension times
general_exclusions ==
    << <<Lit(<<"ci">>), Rep(Cls(WS), 0, INF), Cls({"(", "flparen"}), DotStarLazy, Cls({"=", "kai"})>>,
       <<Cls({"cheng", "fa"}), Lit(<<"li">>)>>,
       <<Lit(<<"ying", "bian">>)>>, <<Lit(<<"fa", "che">>)>>, <<Lit(<<"kai", "che">>)>>, <<Lit(<<"fa", "bu2">>)>>,
       <<Lit(<<"dao">>), RepLazy(AnyC, 0, 5), Lit(<<"zhan">>)>>,
       <<Lit(<<"kai">>), RepLazy(AnyC, 0, 5), Lit(<<"zhan">>)>>,
       <<Lit(<<"shi", "qian">>), DotStarLazy, Lit(<<"ting", "shi3">>)>>,
       <<Lit(<<"shi", "hou">>), DotStarLazy, Lit(<<"ting", "shi3">>)>>,
       <<Lit(<<"ting", "shi3">>), DotStarLazy, Lit(<<"shi", "qian">>)>>,
       <<Lit(<<"ting", "shi3">>), DotStarLazy, Lit(<<"shi", "hou">>)>> >>

FoundAny(t, res) == \E i \in 1..Len(res) : Found(t, res[i])

\* Pattern 7: a time within 10 characters of a resumption keyword
RECURSIVE Pattern7From(_, _, _)
Pattern7From(t, ref, n) ==
    IF n > Len(resumption_keywords) THEN Fall
    ELSE LET On(m) ==
                 IF /\ m.s # 0
                    /\ ~FoundAny(Around(t, m, 30, 30), proximity_exclusions)
                    /\ ~FoundAny(Around(t, m, 50, 50), general_exclusions)
                 THEN ReplaceTime(ref, IntGroup(t, m, 1), IntGroup(t, m, 2), 0)
                 ELSE Pattern7From(t, ref, n + 1)
             Either(fwd) ==
                 On(IF fwd.s # 0 THEN fwd ELSE Search(t, backward_pattern(resumption_keywords[n])))
         IN Either(Search(t, forward_pattern(resumption_keywords[n])))

Pattern7(t, ref) == Pattern7From(t, ref, 1)

\* the recognizers in the order the function tries them
NumRecognizers == 19

Recognizer(n, t, ref) ==
    CASE n = 1 -> Pattern0(t, ref)
      [] n = 2 -> Pattern1(t, ref)
      [] n = 3 -> Pattern1_5(t, ref)
      [] n = 4 -> Pattern2(t, ref)
      [] n = 5 -> Pattern2_5_tomorrow(t, ref)
      [] n = 6 -> Pattern2_5_today(t, ref)
      [] n = 7 -> Pattern2_5_month_day(t, ref)
      [] n = 8 -> Pattern2_6_tomorrow(t, ref)
      [] n = 9 -> Pattern2_6_today(t, ref)
      [] n = 10 -> Pattern2_65(t, ref)
      [] n = 11 -> Pattern2_7(t, ref)
      [] n = 12 -> Pattern2_9(t, ref)
      [] n = 13 -> Pattern2_10(t, ref)
      [] n = 14 -> Pattern2_11(t, ref)
      [] n = 15 -> Pattern3(t, ref)
      [] n = 16 -> Pattern4(t, ref)
      [] n = 17 -> Pattern5(t, ref)
      [] n = 18 -> Pattern6(t, ref)
      [] n = 19 -> Pattern7(t, ref)

\* the statements of the try block from recognizer n on: the outcome of the
\* first recognizer that does not fall through, None after the last one
RECURSIVE ResolveFrom(_, _, _)
ResolveFrom(t, ref, n) ==
    IF n > NumRecognizers THEN None
    ELSE LET On(o) == IF o.k # "fall" THEN o ELSE ResolveFrom(t, ref, n + 1)
         IN On(Recognizer(n, t, ref))

ResolveBody(t, ref) == ResolveFrom(t, ref, 1)

\* except Exception: return None
\* a resolver without the outer "except Exception": the exception reaches the caller
Propagate(o) == o

\* the outer "except Exception: return None"
CatchAll(o) == IF o.k = "raise" THEN None ELSE o

parse_resumption_time(t, pd) ==
    IF t = <<>> THEN None
    ELSE LET On(ref) == IF ref.k = "raise" THEN Raise ELSE ResolveBody(StripAdmin(t), ref.dt)
         IN CatchAll(On(Strptime(ReplaceSlash(pd))))

(***************************************************************************)
(* content_parser.ContentParser                                            *)
(***************************************************************************)
\* r'預計|預估'
prediction_marker == <<Alt(<< <<Lit(<<"yu", "ji">>)>>, <<Lit(<<"yu", "gu">>)>> >>)>>

NotStop(lo, hi) == RepLazy(NCls({"fstop"}), lo, hi)

OptFen == Opt(<<Lit(<<"fen">>)>>)

\* r'已[於在][^。]{0,50}?恢復'
already_resumed == <<Lit(<<"yi4">>), Cls({"yu2", "zai"}), NotStop(0, 50), Lit(<<"hui", "fu">>)>>

\* r'於[今本]\(?(\d+)?\)?日\s*\d{1,2}[：:時](?:\d{2})?(?:起|分)?[^。]{0,20}?恢復'
today_confirmed ==
    <<Lit(<<"yu2">>), Cls({"jin", "ben"}), Rep(Cls({"("}), 0, 1), Opt(<<Grp(1, <<DPlus>>)>>), Rep(Cls({")"}), 0, 1),
      Lit(<<"ri">>), Rep(Cls(WS), 0, INF), D12, TSep, Opt(<<D2>>), Opt(<<Cls({"qi3", "fen"})>>),
      NotStop(0, 20), Lit(<<"hui", "fu">>)>>

\* r'於\s*\d{1,2}[：:時]\d{2}(?:分)?[^。]{0,10}?恢復(?:雙向)?通車'
at_time_recovered ==
    <<Lit(<<"yu2">>), Rep(Cls(WS), 0, INF), D12, TSep, D2, OptFen, NotStop(0, 10), Lit(<<"hui", "fu">>),
      Opt(<<Lit(<<"shuang", "xiang">>)>>), Lit(<<"tong", "che">>)>>

\* r'於\s*\d{1,2}[：:時]\d{2}(?:分)?\s*搶修完[成畢]'
at_time_repaired ==
    <<Lit(<<"yu2">>), Rep(Cls(WS), 0, INF), D12, TSep, D2, OptFen, Rep(Cls(WS), 0, INF), Lit(<<"qiang", "xiu", "wan">>),
      Cls({"cheng", "bi"})>>

\* r'\d{1,2}[：:時]\d{2}(?:分)?[^。]{0,10}?恢復(?:雙向)?通車'
time_recovered ==
    <<D12, TSep, D2, OptFen, NotStop(0, 10), Lit(<<"hui", "fu">>), Opt(<<Lit(<<"shuang", "xiang">>)>>), Lit(<<"tong", "che">>)>>

\* r'今\(\d+\)日\s*\d{1,2}[：:時]\d{2}(?:分)?起[^。]{0,30}?鐵路接駁服務'
shuttle_started ==
    <<Lit(<<"jin", "(">>), DPlus, Lit(<<")", "ri">>), Rep(Cls(WS), 0, INF), D12, TSep, D2, OptFen, Lit(<<"qi3">>),
      NotStop(0, 30), Lit(<<"tie", "lu4", "jie", "bo", "fu2", "wu4">>)>>

actual_completion_patterns ==
    <<already_resumed, today_confirmed, at_time_recovered, at_time_repaired, time_recovered,
      shuttle_started>>

\* a completion pattern matches with no 預計/預估 in the 20 characters before
CompletionNotPredicted(t, re) ==
    LET On(m) ==
            m.s # 0 /\ ~Found(Before(t, m, 20), prediction_marker)
    IN On(Search(t, re))

\* _extract_predicted_time
_extract_predicted_time(t, pd, ti) ==
    IF Contains(ti, <<"lie", "che", "xing", "shi3", "zi", "xun">>) /\ ~AnyIn(ti, {<<"hui", "fu">>, <<"fu", "shi3">>}) THEN None
    ELSE IF AnyIn(ti, {<<"qiang", "xiu", "gai", "kuang">>, <<"shou4", "sun", "gai", "kuang">>, <<"shu", "yun", "ying", "bian", "cuo", "shi6">>, <<"ti", "qian", "qiang", "tong">>, <<"lu4", "xian", "shou4", "sun">>})
            /\ ~AnyIn(ti, {<<"yu", "ji", "hui", "fu">>, <<"yu", "gu", "hui", "fu">>}) THEN None
    ELSE IF AnyIn(ti, {<<"shu", "yun">>, <<"jie", "bo">>}) /\ ~AnyIn(ti, {<<"lie", "che", "hui", "fu">>, <<"hui", "fu", "xing", "shi3">>, <<"hui", "fu", "tong", "che">>}) THEN None
    ELSE IF ~Found(t, prediction_marker)
            /\ \E i \in 1..Len(actual_completion_patterns) :
                   CompletionNotPredicted(t, actual_completion_patterns[i])
         THEN None
    ELSE parse_resumption_time(t, pd)

resumed_keywords_title == {<<"hui", "fu", "zheng", "chang", "xing", "shi3">>, <<"yi4", "hui", "fu">>, <<"hui", "fu", "tong", "che">>, <<"hui", "fu", "xing", "shi3">>}

\* r'搶修完畢[^。]{0,30}?恢復'
repaired_resumed == <<Lit(<<"qiang", "xiu", "wan", "bi">>), NotStop(0, 30), Lit(<<"hui", "fu">>)>>

resumed_keywords_content ==
    <<already_resumed, repaired_resumed, at_time_recovered, at_time_repaired, time_recovered,
      shuttle_started>>

\* r'後[，,\s]{0,2}恢復', r'俟.*?後.*?恢復'
conditional_indicators ==
    << <<Lit(<<"hou">>), Rep(Cls({"fcomma", ","} \cup WS), 0, 2), Lit(<<"hui", "fu">>)>>,
       <<Lit(<<"si4">>), DotStarLazy, Lit(<<"hou">>), DotStarLazy, Lit(<<"hui", "fu">>)>> >>

\* the loop over resumed_keywords_content: the first pattern whose match is
\* preceded by a prediction or is conditional clears has_resumption_in_content
RECURSIVE ContentStillResumed(_, _)
ContentStillResumed(t, n) ==
    IF n > Len(resumed_keywords_content) THEN TRUE
    ELSE LET On(m) ==
                 IF m.s # 0 /\ (\/ Found(Before(t, m, 20), prediction_marker)
                                \/ FoundAny(Group0(t, m), conditional_indicators))
                 THEN FALSE
                 ELSE ContentStillResumed(t, n + 1)
         IN On(Search(t, resumed_keywords_content[n]))

has_resumption_in_content(t) ==
    FoundAny(t, resumed_keywords_content) /\ ContentStillResumed(t, 1)

\* r'明\(\d+\)日.*恢復', r'明日.*恢復', r'\d+日.*恢復', r'預計.*恢復'
future_indicators ==
    << <<Lit(<<"ming", "(">>), DPlus, Lit(<<")", "ri">>), DotStar, Lit(<<"hui", "fu">>)>>,
       <<Lit(<<"ming", "ri">>), DotStar, Lit(<<"hui", "fu">>)>>,
       <<DPlus, Lit(<<"ri">>), DotStar, Lit(<<"hui", "fu">>)>>,
       <<Lit(<<"yu", "ji">>), DotStar, Lit(<<"hui", "fu">>)>> >>

\* r'於[今本]\((\d+)\)日\s*(\d{1,2})[時:](\d{2})?起.*?恢復'
pattern_0a ==
    <<Lit(<<"yu2">>), Cls({"jin", "ben"}), Lit(<<"(">>), Grp(1, <<DPlus>>), Lit(<<")", "ri">>), Rep(Cls(WS), 0, INF),
      Grp(2, <<D12>>), Cls({"shi", ":"}), Opt(<<Grp(3, <<D2>>)>>), Lit(<<"qi3">>), DotStarLazy, Lit(<<"hui", "fu">>)>>

\* r'(\d{1,2})[時:](\d{2})?(?:分)?(?:起)?.*?恢復', r'恢復.*?(\d{1,2})[時:](\d{2})?'
title_patterns ==
    << <<Grp(1, <<D12>>), Cls({"shi", ":"}), Opt(<<Grp(2, <<D2>>)>>), OptFen, Opt(<<Lit(<<"qi3">>)>>),
         DotStarLazy, Lit(<<"hui", "fu">>)>>,
       <<Lit(<<"hui", "fu">>), DotStarLazy, Grp(1, <<D12>>), Cls({"shi", ":"}), Opt(<<Grp(2, <<D2>>)>>)>> >>

HM == <<Grp(1, <<D12>>), Cls({"shi", ":"}), Grp(2, <<D2>>), OptFen>>

\* full recovery, repair completion, shuttle start, general resumption
content_patterns ==
    << HM \o <<NotStop(0, 15), Lit(<<"hui", "fu">>), Opt(<<Lit(<<"shuang", "xiang">>)>>), Lit(<<"tong", "che">>)>>,
       <<Lit(<<"yu2">>), Rep(Cls(WS), 0, INF)>> \o HM \o <<NotStop(0, 15), Lit(<<"qiang", "xiu", "wan">>), Cls({"cheng", "bi"})>>,
       <<Lit(<<"jin", "(">>), DPlus, Lit(<<")", "ri">>), Rep(Cls(WS), 0, INF)>> \o HM
           \o <<Lit(<<"qi3">>), NotStop(0, 30), Lit(<<"tie", "lu4", "jie", "bo">>)>>,
       HM \o <<Lit(<<"qi3">>), NotStop(0, 10), Lit(<<"hui", "fu">>)>>,
       <<Lit(<<"yu2">>), Rep(Cls(WS), 0, INF)>> \o HM \o <<NotStop(0, 15), Lit(<<"hui", "fu">>)>>,
       <<Lit(<<"yi4">>), Cls({"yu2", "zai"}), NotStop(0, 15)>> \o HM \o <<NotStop(0, 15), Lit(<<"hui", "fu">>)>> >>

\* the (hour, minute) of the matches of one content pattern that no
\* 預計/預估 precedes within 20 characters
RECURSIVE ContentTimes(_, _)
ContentTimes(t, ms) ==
    IF ms = <<>> THEN <<>>
    ELSE LET m == Head(ms)
         IN (IF Found(Before(t, m, 20), prediction_marker) THEN <<>>
             ELSE << <<IntGroup(t, m, 1), IntGroupOr0(t, m, 2)>> >>)
            \o ContentTimes(t, Tail(ms))

RECURSIVE AllContentTimes(_, _)
AllContentTimes(t, n) ==
    IF n > Len(content_patterns) THEN <<>>
    ELSE ContentTimes(t, FindIter(t, content_patterns[n], 1)) \o AllContentTimes(t, n + 1)

\* r'發[佈布]日期[：:].{0,20}?[上下]午\s*(\d{1,2})[：:](\d{2})'
publish_time_pattern ==
    <<Lit(<<"fa">>), Cls({"bu", "bu2"}), Lit(<<"ri", "qi">>), Cls({"fcolon", ":"}), RepLazy(AnyC, 0, 20), Cls({"shang", "xia"}), Lit(<<"wu">>),
      Rep(Cls(WS), 0, INF), Grp(1, <<D12>>), Cls({"fcolon", ":"}), Grp(2, <<D2>>)>>

\* the statements of _extract_actual_time after the future_indicators test:
\* pattern_0a and title_patterns on the title, content_patterns and
\* publish_time_pattern on the text, then 23:59:59 of the publish date
ActualFromTitleOrContent(t, pd, ti) ==
    LET On(ref, m0a, mt1, mt2, earliest_time, mp) ==
            LET At(hour, minute, second) ==
                    IF ref.k = "raise" THEN Raise ELSE ReplaceTime(ref.dt, hour, minute, second)
                r0a == ReplaceDayTime(ref.dt, IntGroup(ti, m0a, 1), IntGroup(ti, m0a, 2),
                                      IntGroupOr0(ti, m0a, 3))
                hour == IntGroup(t, mp, 1)
                pm == Contains(SubSeq(t, Max(1, mp.s - 5), mp.e - 1), <<"xia", "wu">>)
            IN IF m0a.s # 0 /\ ref.k = "raise" THEN Raise
               ELSE IF m0a.s # 0 /\ r0a.k = "ret" THEN r0a
               ELSE IF mt1.s # 0 THEN At(IntGroup(ti, mt1, 1), IntGroupOr0(ti, mt1, 2), 0)
               ELSE IF mt2.s # 0 THEN At(IntGroup(ti, mt2, 1), IntGroupOr0(ti, mt2, 2), 0)
               ELSE IF earliest_time # <<>> THEN At(earliest_time[1], earliest_time[2], 0)
               ELSE IF mp.s # 0
                    THEN At(IF pm /\ hour < 12 THEN hour + 12 ELSE hour, IntGroup(t, mp, 2), 0)
               ELSE At(23, 59, 59)
    IN On(Strptime(ReplaceSlash(pd)), Search(ti, pattern_0a), Search(ti, title_patterns[1]),
          Search(ti, title_patterns[2]), Earliest(AllContentTimes(t, 1)),
          Search(t, publish_time_pattern))

\* _extract_actual_time
_extract_actual_time(t, pd, ti) ==
    IF ~AnyIn(ti, resumed_keywords_title) /\ ~has_resumption_in_content(t) THEN None
    ELSE IF FoundAny(ti, future_indicators) THEN None
    ELSE CatchAll(ActualFromTitleOrContent(t, pd, ti))

\* the value None of a field that is not an instant
NoneV == "None"

\* r'恢復.*?通車|恢復.*?行駛|恢復正常|恢復營運'
title_resumption_pattern ==
    <<Alt(<< <<Lit(<<"hui", "fu">>), DotStarLazy, Lit(<<"tong", "che">>)>>, <<Lit(<<"hui", "fu">>), DotStarLazy, Lit(<<"xing", "shi3">>)>>,
             <<Lit(<<"hui", "fu", "zheng", "chang">>)>>, <<Lit(<<"hui", "fu", "ying2", "yun">>)>> >>)>>

title_shuttle_keywords == {<<"jie", "bo", "fu2", "wu4">>, <<"jie", "bo", "kai", "shi9">>, <<"tie", "lu4", "jie", "bo">>}

\* r'取消.*?接駁', r'停止.*?接駁', r'結束.*?接駁'
cancellation_patterns ==
    << <<Lit(<<"qu", "xiao">>), DotStarLazy, Lit(<<"jie", "bo">>)>>, <<Lit(<<"ting", "zhi3">>), DotStarLazy, Lit(<<"jie", "bo">>)>>,
       <<Lit(<<"jie2", "shu4">>), DotStarLazy, Lit(<<"jie", "bo">>)>> >>

\* r'接駁服務', r'鐵路接駁', r'公路接駁', r'柴聯車.*?接駁', r'接駁.*?柴聯車', r'巴士接駁', r'接駁巴士'
shuttle_patterns ==
    << <<Lit(<<"jie", "bo", "fu2", "wu4">>)>>, <<Lit(<<"tie", "lu4", "jie", "bo">>)>>, <<Lit(<<"gong", "lu4", "jie", "bo">>)>>,
       <<Lit(<<"chai", "lian", "che">>), DotStarLazy, Lit(<<"jie", "bo">>)>>, <<Lit(<<"jie", "bo">>), DotStarLazy, Lit(<<"chai", "lian", "che">>)>>,
       <<Lit(<<"ba", "shi7", "jie", "bo">>)>>, <<Lit(<<"jie", "bo", "ba", "shi7">>)>> >>

\* the details of a shuttle service
ShuttleDetails(full_text) ==
    IF Contains(full_text, <<"chai", "lian", "che">>) THEN <<"chai", "lian", "che", "jie", "bo">>
    ELSE IF Contains(full_text, <<"gong", "lu4">>) \/ Contains(full_text, <<"ba", "shi7">>) THEN <<"gong", "lu4", "/", "ba", "shi7", "jie", "bo">>
    ELSE <<"tie", "lu4", "jie", "bo", "fu2", "wu4">>

\* (pattern, detail) in the order they are tried
partial_patterns ==
    << << <<Lit(<<"dan", "xian", "shuang", "xiang", "tong", "che">>)>>, <<"dan", "xian", "shuang", "xiang", "tong", "che">> >>,
       << <<Lit(<<"dan", "xian">>), DotStarLazy, Lit(<<"xing", "che">>)>>, <<"dan", "xian", "xing", "che">> >>,
       << <<Lit(<<"bu5", "fen">>), DotStarLazy, Lit(<<"hui", "fu">>)>>, <<"bu5", "fen", "hui", "fu">> >>,
       << <<Lit(<<"ju", "bu5">>), DotStarLazy, Lit(<<"tong", "che">>)>>, <<"ju", "bu5", "tong", "che">> >>,
       << <<Lit(<<"qu1", "jian">>), DotStarLazy, Lit(<<"hui", "fu">>)>>, <<"qu1", "jian", "hui", "fu">> >> >>

\* r'恢復正常', r'正常行駛', r'正常營運', r'恢復雙向通車', r'恢復行駛', r'恢復通車'
normal_patterns ==
    << <<Lit(<<"hui", "fu", "zheng", "chang">>)>>, <<Lit(<<"zheng", "chang", "xing", "shi3">>)>>, <<Lit(<<"zheng", "chang", "ying2", "yun">>)>>, <<Lit(<<"hui", "fu", "shuang", "xiang", "tong", "che">>)>>,
       <<Lit(<<"hui", "fu", "xing", "shi3">>)>>, <<Lit(<<"hui", "fu", "tong", "che">>)>> >>

\* priorities 2 and 3: the first partial pattern found, else normal_train
RECURSIVE PartialOrNormal(_, _)
PartialOrNormal(full_text, n) ==
    IF n > Len(partial_patterns)
    THEN IF FoundAny(full_text, normal_patterns) THEN <<"normal_train", <<"zheng", "chang", "lie", "che", "fu2", "wu4">>>>
         ELSE <<"normal_train", NoneV>>
    ELSE IF Found(full_text, partial_patterns[n][1]) THEN <<"partial_operation", partial_patterns[n][2]>>
    ELSE PartialOrNormal(full_text, n + 1)

\* a classification that does not look for a cancelled shuttle service
ServiceTypeIgnoringCancellation(t, ti) ==
    LET On(full_text, skip_shuttle_check) ==
            IF ~skip_shuttle_check /\ FoundAny(full_text, shuttle_patterns)
            THEN <<"shuttle_service", ShuttleDetails(full_text)>>
            ELSE PartialOrNormal(full_text, 1)
    IN On(ti \o <<" ">> \o t,
          Found(ti, title_resumption_pattern) /\ ~AnyIn(ti, title_shuttle_keywords))

\* _identify_service_type: (service_type, service_details)
_identify_service_type(t, ti) ==
    LET On(full_text, skip_shuttle_check) ==
            IF /\ ~FoundAny(full_text, cancellation_patterns)
               /\ ~skip_shuttle_check
               /\ FoundAny(full_text, shuttle_patterns)
            THEN <<"shuttle_service", ShuttleDetails(full_text)>>
            ELSE PartialOrNormal(full_text, 1)
    IN On(ti \o <<" ">> \o t,
          Found(ti, title_resumption_pattern) /\ ~AnyIn(ti, title_shuttle_keywords))

system_keywords ==
    {<<"xi", "tong3", "wei", "hu">>, <<"xi", "tong3", "ting", "ji1">>, <<"wang", "zhan", "wei", "hu">>, <<"wang", "zhan", "fu2", "wu4">>, <<"ding4", "piao", "xi", "tong3">>, <<"ding4", "wei4", "xi", "tong3">>, <<"hui4", "yuan", "fu2", "wu4", "xi", "tong3">>, <<"e", "ding4", "tong">>}

train_operation_keywords ==
    {<<"lie", "che">>, <<"ban", "che">>, <<"ting", "shi3">>, <<"tong", "che">>, <<"xing", "shi3">>, <<"lu4", "xian">>, <<"tie", "lu4">>, <<"gui", "dao4">>, <<"yue", "tai">>}

\* _is_non_train_announcement
_is_non_train_announcement(ti, t) ==
    \/ AnyIn(ti, system_keywords)
    \/ /\ AnyIn(t, system_keywords)
       /\ ~AnyIn(t, train_operation_keywords)
       /\ (Contains(t, <<"zan", "ting", "guan", "wang">>) \/ Contains(t, <<"zan", "ting", "wang", "zhan">>))

\* self.event_type_keywords, in insertion order
event_type_keywords ==
    << <<<<"tai2", "feng">>, "Typhoon">>, <<<<"tai", "feng">>, "Typhoon">>, <<<<"hao", "yu3">>, "Heavy_Rain">>,
       <<<<"da4", "yu3">>, "Heavy_Rain">>, <<<<"bao", "yu3">>, "Heavy_Rain">>, <<<<"di", "zhen">>, "Earthquake">>,
       <<<<"luo", "shi8">>, "Equipment_Failure">>, <<<<"chu", "gui">>, "Equipment_Failure">>,
       <<<<"gu4", "zhang">>, "Equipment_Failure">>, <<<<"hao4", "zhi5">>, "Equipment_Failure">>,
       <<<<"dian4", "che", "xian">>, "Equipment_Failure">> >>

\* self.status_keywords, in insertion order
status_keywords ==
    << <<<<"ting", "shi3">>, "Suspended">>, <<<<"zan", "ting">>, "Suspended">>, <<<<"zhong", "duan">>, "Suspended">>,
       <<<<"zan", "ting", "ying2", "yun">>, "Suspended">>, <<<<"bu5", "fen">>, "Partial_Operation">>,
       <<<<"dan", "xian">>, "Resumed_Single_Track">>, <<<<"dan", "xian", "xing", "che">>, "Resumed_Single_Track">>,
       <<<<"hui", "fu", "xing", "shi3">>, "Resumed_Normal">>, <<<<"hui", "fu", "tong", "che">>, "Resumed_Normal">>,
       <<<<"hui", "fu", "ying2", "yun">>, "Resumed_Normal">>, <<<<"yi4", "pai", "chu2">>, "Resumed_Normal">> >>

RECURSIVE FirstKeyword(_, _, _)
FirstKeyword(t, kws, n) ==
    IF n > Len(kws) THEN NoneV
    ELSE IF Contains(t, kws[n][1]) THEN kws[n][2]
    ELSE FirstKeyword(t, kws, n + 1)

\* _extract_event_type
_extract_event_type(t) == FirstKeyword(t, event_type_keywords, 1)

\* r'暫停官網', r'暫停網站', r'暫停.*?服務系統', r'暫停.*?訂[票位]', r'暫停.*?e訂通'
non_train_contexts ==
    << <<Lit(<<"zan", "ting", "guan", "wang">>)>>, <<Lit(<<"zan", "ting", "wang", "zhan">>)>>,
       <<Lit(<<"zan", "ting">>), DotStarLazy, Lit(<<"fu2", "wu4", "xi", "tong3">>)>>,
       <<Lit(<<"zan", "ting">>), DotStarLazy, Lit(<<"ding4">>), Cls({"piao", "wei4"})>>,
       <<Lit(<<"zan", "ting">>), DotStarLazy, Lit(<<"e", "ding4", "tong">>)>> >>

\* r'暫停營運', r'暫停行駛', r'列車.*?暫停', r'暫停.*?列車'
train_suspension_patterns ==
    << <<Lit(<<"zan", "ting", "ying2", "yun">>)>>, <<Lit(<<"zan", "ting", "xing", "shi3">>)>>,
       <<Lit(<<"lie", "che">>), DotStarLazy, Lit(<<"zan", "ting">>)>>,
       <<Lit(<<"zan", "ting">>), DotStarLazy, Lit(<<"lie", "che">>)>> >>

RECURSIVE StatusFrom(_, _)
StatusFrom(t, n) ==
    IF n > Len(status_keywords) THEN NoneV
    ELSE IF ~Contains(t, status_keywords[n][1]) THEN StatusFrom(t, n + 1)
    ELSE IF /\ status_keywords[n][1] = <<"zan", "ting">>
            /\ FoundAny(t, non_train_contexts)
            /\ ~FoundAny(t, train_suspension_patterns)
         THEN StatusFrom(t, n + 1)
    ELSE status_keywords[n][2]

\* _extract_status
_extract_status(t, ti) == StatusFrom(t, 1)

\* the ASCII characters and the fullwidth punctuation of the texts: what
\* [一-龥] does not match
NonCJK ==
    Digits \cup WS \cup {"fcolon", "fcomma", "fstop", "dun", "flparen", "frparen"}
    \cup {"a", "b", "c", "d", "e", "f", "g", "h", "i", "j", "k", "l", "m", "n", "o", "p", "q", "r", "s", "t", "u", "v", "w", "x", "y", "z"} \cup {"A", "B", "C", "D", "E", "F", "G", "H", "I", "J", "K", "L", "M", "N", "O", "P", "Q", "R", "S", "T", "U", "V", "W", "X", "Y", "Z"}
    \cup {"!", "#", "$", "%", "&", "'", "(", ")", "+", ",", "-", ".", "/", ":", ";", "<", "=", ">", "?", "@", "[", "]", "_", "{", "|", "}", "~"} \cup {"dquote", "bslash", "nl", "tab"}

\* r"([一-龥]{2,4})站"
station_pattern == <<Grp(1, <<Rep(NCls(NonCJK), 2, 4)>>), Lit(<<"zhan">>)>>

station_blacklist ==
    {<<"guan", "wang", "wang">>, <<"ting", "guan", "wang", "wang">>, <<"wang">>, <<"guan", "wang">>, <<"fu2", "wu4">>, <<"jia", "you">>, <<"chong", "dian4">>, <<"xiu2", "xi2">>, <<"che">>, <<"zong">>, <<"ben">>,
     <<"ge">>, <<"mei">>, <<"quan">>}

RECURSIVE Stations(_, _, _)
Stations(t, ms, seen) ==
    IF ms = <<>> THEN <<>>
    ELSE LET station == Group(t, Head(ms), 1)
         IN IF station \notin seen /\ station \notin station_blacklist
            THEN <<station>> \o Stations(t, Tail(ms), seen \cup {station})
            ELSE Stations(t, Tail(ms), seen)

\* _extract_affected_stations
_extract_affected_stations(t) == Stations(t, FindIter(t, station_pattern, 1), {})

IsSpace(c) == c \in WS \cup {"nl", "tab"}

RECURSIVE LStrip(_)
LStrip(t) == IF t # <<>> /\ IsSpace(Head(t)) THEN LStrip(Tail(t)) ELSE t

RECURSIVE RStrip(_)
RStrip(t) == IF t # <<>> /\ IsSpace(t[Len(t)]) THEN RStrip(SubSeq(t, 1, Len(t) - 1)) ELSE t

\* soup.get_text(separator=" ", strip=True) of a document without markup
get_text(html) == RStrip(LStrip(html))

\* ExtractedData(...): the class declares no service_type and service_details
\* fields, so these two keyword arguments of parse are dropped
ExtractedData(rv, et, st, al, as, pr, ac) ==
    [report_version |-> rv, event_type |-> et, status |-> st, affected_lines |-> al,
     affected_stations |-> as, predicted_resumption_time |-> pr, actual_resumption_time |-> ac]

EmptyExtractedData == ExtractedData(NoneV, NoneV, NoneV, <<>>, <<>>, None, None)

\* ContentParser.parse; self.patterns is {} (no regex_patterns.yaml), so
\* report_version is None and affected_lines is []
parse(html, pd, ti) ==
    LET On(t) ==
            IF _is_non_train_announcement(ti, t) THEN EmptyExtractedData
            ELSE ExtractedData(NoneV, _extract_event_type(t), _extract_status(t, ti), <<>>,
                               _extract_affected_stations(t), _extract_predicted_time(t, pd, ti),
                               _extract_actual_time(t, pd, ti))
    IN On(get_text(html))

\* the locals (service_type, service_details) of parse when it returns:
\* _identify_service_type is called only if actual_resumption_time is set
parse_service(html, pd, ti) ==
    LET On(t) ==
            IF _is_non_train_announcement(ti, t) THEN <<NoneV, NoneV>>
            ELSE IF _extract_actual_time(t, pd, ti).k = "ret" THEN _identify_service_type(t, ti)
            ELSE <<NoneV, NoneV>>
    IN On(get_text(html))

(***************************************************************************)
(* The announcements and the calls made on them.  An announcement (text,   *)
(* title, publish_date) is submitted; the resolver and the parser are      *)
(* called on it; the system clock advances and other announcements are     *)
(* processed before the same announcement is submitted again.              *)
(***************************************************************************)
MaxClock == 1

MaxRounds == 2

\* the clauses the announcement texts are composed of
Clauses ==
    << <<>>, <<"yu", "ji", "2", "5", "shi">>, <<"jin", "ri", "1", "9", ":", "0", "0", "hui", "fu">>, <<"jin", "ri", "1", "4", "shi", "fa", "bu2">>, <<"ming", "ri", "8", "shi", "hui", "fu">>, <<"ming", "(", "3", "1", ")", "ri", "8", "shi", "hui", "fu">>,
       <<"ming", "(", "3", "1", ")", "ri", "shou", "ban", "che", "hui", "fu", "xing", "shi3">>, <<"shou", "ban", "che", "hui", "fu", "xing", "shi3">>, <<"yu", "ji", "1", "8", ":", "3", "0", "qiang", "tong">>,
       <<"fa", "sheng", "shi", "jian", "fcolon", "1", "1", "4", "nian", "4", "yue", "1", "2", "ri", "1", "6", "shi", "0", "5", "fen">>, <<"fa", "bu", "ri", "qi", "fcolon", "2", "0", "2", "5", "/", "7", "/", "8", " ", "xia", "wu", " ", "4", ":", "5", "5">>, <<"yu", "ji", "qiang", "xiu">>,
       <<"yi4", "yu2", "1", "6", ":", "4", "8", "hui", "fu", "dan", "xian">>, <<"yi4", "yu2", "1", "6", "shi", "hui", "fu", "dan", "xian">>, <<"yu", "ji", "1", "8", "shi", "hui", "fu", "shuang", "xian">>, <<"1", "6", ":", "5", "0", "hui", "fu", "dan", "xian", "shuang", "xiang", "tong", "che">>,
       <<"1", "7", ":", "0", "0", "hui", "fu", "shuang", "xiang", "tong", "che">>, <<"1", "2", "shi", "qian", "ting", "shi3">>, <<"1", "2", "shi", "yi3", "qian", "ting", "shi3">>, <<"1", "2", "shi", "yi3", "qian", "zheng", "chang", "xing", "shi3">>, <<"2", "4", "shi", "yi3", "qian", "ting", "shi3">>,
       <<"ming", "ri", "2", "4", "shi">>, <<"ling", "chen", "hui", "fu", "xing", "shi3">>, <<"1", "7", ":", "0", "0", "dun", "1", "6", ":", "5", "0", "hui", "fu", "tong", "che">> >>

\* two clauses joined by a comma; an empty clause adds nothing
Join(a, b) == IF a = <<>> THEN b ELSE IF b = <<>> THEN a ELSE a \o <<"fcomma">> \o b

Texts == {Join(Clauses[i], Clauses[j]) : i, j \in 1..Len(Clauses)}

\* the hours of the "before X" clauses
BoundaryHours == {0, 9, 12, 23, 24}

DigitChar(d) == CHOOSE c \in Digits : DigitVal(c) = d

\* str(n) for 0 <= n <= 99
NumText(n) == IF n < 10 THEN <<DigitChar(n)>> ELSE <<DigitChar(n \div 10), DigitChar(n % 10)>>

SuspendedBefore(x) == NumText(x) \o <<"shi", "qian", "ting", "shi3">>

SuspendedBeforeYi(x) == NumText(x) \o <<"shi", "yi3", "qian", "ting", "shi3">>

NormalBefore(x) == NumText(x) \o <<"shi", "yi3", "qian", "zheng", "chang", "xing", "shi3">>

\* clauses that are submitted on their own only
ExtraClauses ==
    {SuspendedBefore(x) : x \in BoundaryHours} \cup {SuspendedBeforeYi(x) : x \in BoundaryHours}
    \cup {NormalBefore(x) : x \in BoundaryHours}
    \cup {<<"ming", "(", "3", "1", ")", "ri", "mo", "ban", "che", "hui", "fu", "xing", "shi3">>, <<"jin", "ri", "shou", "ban", "che", "hui", "fu", "xing", "shi3">>, <<"ming", "ri", "shou", "ban", "che", "hui", "fu", "xing", "shi3">>}

\* the M月D日 texts with the month, day, hour and minute each one states
MonthDayTexts ==
    {<<<<"yu", "ji", "8", "yue", "1", "3", "ri", "1", "2", "shi", "qian", "hui", "fu">>, 8, 13, 12, 0>>, <<<<"yu", "ji", "8", "yue", "1", "2", "ri", "1", "2", ":", "3", "0", "hui", "fu">>, 8, 12, 12, 30>>,
     <<<<"yu", "ji", "1", "0", "yue", "1", "ri", "8", ":", "3", "0", "hui", "fu">>, 10, 1, 8, 30>>, <<<<"yu", "ji", "1", "yue", "1", "ri", "8", "shi", "hui", "fu">>, 1, 1, 8, 0>>,
     <<<<"yu", "ji", "9", "yue", "1", "ri", "shou", "ban", "che", "hui", "fu", "xing", "shi3">>, 9, 1, 5, 30>>, <<<<"8", "yue", "1", "3", "ri", "shou", "ban", "che", "hui", "fu", "xing", "shi3">>, 8, 13, 5, 30>>,
     <<<<"1", "0", "yue", "2", "3", "ri", "zhi4", "1", "0", "yue", "2", "5", "ri", "zan", "ting", "xing", "shi3">>, 10, 25, 23, 59>>,
     <<<<"8", "yue", "1", "ri", "zhi4", "8", "yue", "1", "3", "ri", "zan", "ting", "xing", "shi3">>, 8, 13, 23, 59>>}

\* texts whose only resumption statement is qualified by 俟…後, 陸續,
\* 視…而定 or 待…確認
UncertainTexts ==
    {<<"si4", "tai2", "feng", "li2", "jing", "hou", "fcomma", "yu", "ji", "1", "8", "shi", "hui", "fu">>, <<"jin", "ri", "1", "8", ":", "0", "0", "lu", "xu", "hui", "fu", "xing", "shi3">>, <<"shi5", "zhuang", "kuang", "er2", "ding", "fcomma", "ming", "ri", "8", "shi", "hui", "fu">>,
     <<"dai", "que", "ren", "an", "quan", "hou", "fcomma", "jin", "ri", "1", "9", ":", "0", "0", "hui", "fu">>, <<"jin", "ri", "lu", "xu", "hui", "fu", "xing", "shi3">>, <<"ming", "ri", "lu", "xu", "hui", "fu", "xing", "shi3">>,
     <<"1", "2", "shi", "qian", "ting", "shi3", "fcomma", "si4", "tai2", "feng", "li2", "jing", "hou", "hui", "fu">>}

\* texts with a completion assertion and no 預計/預估
CompletionTexts ==
    {<<"yi4", "yu2", "1", "6", ":", "4", "8", "hui", "fu", "dan", "xian">>, <<"1", "7", ":", "0", "0", "hui", "fu", "shuang", "xiang", "tong", "che">>, <<"yu2", "1", "7", ":", "1", "0", "qiang", "xiu", "wan", "cheng">>, <<"yi4", "yu2", "jin", "ri", "1", "9", ":", "0", "0", "hui", "fu", "xing", "shi3">>,
     <<"qiang", "xiu", "wan", "bi", "fcomma", "1", "7", ":", "3", "0", "hui", "fu", "xing", "shi3">>}

\* texts without a clock time, a day word, a first/last train or 凌晨
CueFreeTexts ==
    {<<"wu2", "xiao4", "wen", "zi4">>, <<>>, <<"ming", "tian", "hui", "fu", "xing", "shi3">>, <<"4", "3", "2", "ci", "lie", "che", "hui", "fu", "xing", "shi3">>, <<"shao", "hou", "hui", "fu", "tong", "che">>, <<"jin", "wan3", "hui", "fu", "xing", "shi3">>,
     <<"1", "3", "ri", "hui", "fu", "xing", "shi3">>, <<"1", "7", "3", "0", "hui", "fu", "xing", "shi3">>, <<"yu", "ji", "2", "xiao3", "shi", "hou", "hui", "fu", "xing", "shi3">>}

\* 今日/本日 followed by a clock time
SameDayTexts ==
    {<<"ben", "ri", " ", "7", "shi", "hui", "fu", "xing", "shi3">>, <<"jin", "ri", "1", "9", "shi", "3", "0", "fen", "hui", "fu", "xing", "shi3">>, <<"jin", "ri", "2", "4", "shi", "hui", "fu", "xing", "shi3">>, <<"jin", "ri", "2", "5", "shi", "hui", "fu", "xing", "shi3">>,
     <<"jin", "ri", "1", "2", "shi", "hou", "ting", "shi3">>, <<"yu", "ji", "yu2", "jin", "ri", "1", "9", ":", "0", "0", "hui", "fu", "xing", "shi3">>, <<"jin", "ri", "1", "2", "shi", "hou", "ting", "shi3", "fcomma", "jin", "ri", "1", "9", ":", "0", "0", "hui", "fu">>}

SingleTexts ==
    {Clauses[i] : i \in 1..Len(Clauses)} \cup ExtraClauses \cup {p[1] : p \in MonthDayTexts}
    \cup UncertainTexts \cup CompletionTexts \cup CueFreeTexts \cup SameDayTexts

Anchor == <<"2", "0", "2", "5", "/", "0", "8", "/", "1", "3">>

\* the last day of a 30-day month, a date that does not exist, the last day
\* of a year, a string that is no date
OtherDates == {<<"2", "0", "2", "5", "/", "0", "9", "/", "3", "0">>, <<"2", "0", "2", "5", "/", "0", "2", "/", "3", "0">>, <<"2", "0", "2", "5", "/", "1", "2", "/", "3", "1">>, <<"8", "/", "1", "3">>}

OtherTitles == {<<"hui", "fu", "xing", "shi3">>, <<"ding4", "piao", "xi", "tong3", "wei", "hu">>}

Announcement(t, ti, pd) == [text |-> t, title |-> ti, publish_date |-> pd]

\* <<text, title>>: the only resumption language is conditional
ConditionalCases ==
    {<<<<"que", "ren", "an", "quan", "wu2", "yu4", "hou", "fcomma", "hui", "fu", "xing", "shi3">>, <<>>>>, <<<<"si4", "qiang", "xiu", "wan", "bi", "hou", "hui", "fu", "xing", "shi3">>, <<>>>>,
     <<<<"lie", "che", "ting", "shi3">>, <<"si4", "tai2", "feng", "li2", "jing", "hou", "hui", "fu", "xing", "shi3">>>>, <<<<"lie", "che", "ting", "shi3">>, <<"que", "ren", "an", "quan", "hou", "fcomma", "hui", "fu", "xing", "shi3">>>>}

\* <<text, title, hour, minute>>: the clock time of the text follows 預計/預估
PredictedCandidates ==
    {<<<<"yu", "ji", "1", "7", ":", "0", "0", "hui", "fu", "tong", "che">>, <<>>, 17, 0>>, <<<<"yu", "ji", "1", "7", ":", "0", "0", "hui", "fu", "tong", "che">>, <<"hui", "fu", "tong", "che">>, 17, 0>>,
     <<<<"yu", "gu", "yu2", "1", "7", ":", "1", "0", "hui", "fu", "tong", "che">>, <<"yi4", "hui", "fu">>, 17, 10>>}

\* titles with a future-tense marker followed by 恢復
FutureTitles ==
    {<<"ming", "ri", "hui", "fu", "xing", "shi3">>, <<"ming", "(", "1", "4", ")", "ri", "8", "shi", "hui", "fu", "xing", "shi3">>, <<"yu", "ji", "1", "7", ":", "0", "0", "hui", "fu", "tong", "che">>, <<"yu", "gu", "1", "7", ":", "0", "0", "hui", "fu", "tong", "che">>,
     <<"yu", "gu", "ming", "ri", "hui", "fu", "tong", "che">>}

\* <<title, hour, minute>>: titles with a clock time and no future-tense marker
TimedTitles ==
    {<<<<"1", "7", ":", "0", "0", "hui", "fu", "tong", "che">>, 17, 0>>, <<<<"1", "7", "shi", "3", "0", "fen", "hui", "fu", "tong", "che">>, 17, 30>>, <<<<"hui", "fu", "xing", "shi3", "shi", "jian", "1", "7", "shi">>, 17, 0>>,
     <<<<"yu2", "jin", "(", "1", "3", ")", "ri", "8", "shi", "qi3", "hui", "fu", "xing", "shi3">>, 8, 0>>}

\* the texts submitted under these titles
TitledTexts == {<<"yi4", "yu2", "1", "6", ":", "4", "8", "hui", "fu", "dan", "xian">>, <<"lie", "che", "ting", "shi3">>}

\* <<text, title>>: shuttle, partial and normal service wording
ServiceCases ==
    {<<<<"yi4", "yu2", "1", "6", ":", "4", "8", "hui", "fu", "dan", "xian", "fcomma", "ti", "gong2", "jie", "bo", "fu2", "wu4">>, <<>>>>, <<<<"yi4", "yu2", "1", "6", ":", "4", "8", "hui", "fu", "dan", "xian", "fcomma", "ti", "gong2", "jie", "bo", "fu2", "wu4">>, <<"hui", "fu", "tong", "che">>>>,
     <<<<"yi4", "yu2", "1", "6", ":", "4", "8", "hui", "fu", "dan", "xian", "fcomma", "ti", "gong2", "jie", "bo", "fu2", "wu4">>, <<"ding4", "piao", "xi", "tong3", "wei", "hu">>>>,
     <<<<"yi4", "yu2", "1", "6", ":", "4", "8", "hui", "fu", "dan", "xian", "shuang", "xiang", "tong", "che", "fcomma", "qu", "xiao", "gong", "lu4", "jie", "bo">>, <<>>>>, <<<<"jin", "(", "1", "9", ")", "ri", "0", "5", ":", "3", "2", "qi3", "ti", "gong2", "tie", "lu4", "jie", "bo", "fu2", "wu4">>, <<>>>>,
     <<<<"yi4", "yu2", "1", "6", ":", "4", "8", "hui", "fu", "dan", "xian", "fcomma", "chai", "lian", "che", "jie", "bo">>, <<>>>>, <<<<"yi4", "yu2", "1", "6", ":", "4", "8", "hui", "fu", "dan", "xian">>, <<"tie", "lu4", "jie", "bo", "fu2", "wu4", "hui", "fu", "tong", "che">>>>,
     <<<<"yi4", "yu2", "1", "6", ":", "4", "8", "bu5", "fen", "lie", "che", "hui", "fu", "xing", "shi3">>, <<>>>>, <<<<"yi4", "yu2", "1", "6", ":", "4", "8", "hui", "fu", "xing", "shi3">>, <<>>>>,
     <<<<"yi4", "yu2", "1", "6", ":", "4", "8", "hui", "fu", "dan", "xian", "fcomma", "ting", "zhi3", "jie", "bo", "fu2", "wu4">>, <<>>>>, <<<<"ti", "gong2", "jie", "bo", "fu2", "wu4">>, <<>>>>,
     <<<<"ti", "gong2", "jie", "bo", "fu2", "wu4">>, <<"hui", "fu", "xing", "shi3">>>>}

\* <<text, title>>: website and ticketing-system notices
SystemCases ==
    {<<<<"ding4", "piao", "xi", "tong3", "zan", "ting", "guan", "wang", "fu2", "wu4">>, <<>>>>, <<<<"ding4", "piao", "xi", "tong3", "zan", "ting", "guan", "wang", "fu2", "wu4", "fcomma", "lie", "che", "zheng", "chang", "xing", "shi3">>, <<>>>>,
     <<<<"ding4", "piao", "xi", "tong3", "zan", "ting", "fu2", "wu4">>, <<"xi", "tong3", "wei", "hu", "gong", "gao">>>>, <<<<"ding4", "piao", "xi", "tong3", "zan", "ting", "fu2", "wu4">>, <<>>>>}

\* <<text, title, hour, minute, second>>: resumed announcements whose time
\* comes from the title, from the text, from the 發佈日期 clause, from nowhere
ActualCases ==
    {<<<<"yi4", "yu2", "1", "6", ":", "4", "8", "hui", "fu", "dan", "xian">>, <<"1", "7", ":", "0", "0", "hui", "fu", "tong", "che">>, 17, 0, 0>>,
     <<<<"fa", "bu", "ri", "qi", "fcolon", "2", "0", "2", "5", "/", "8", "/", "1", "3", " ", "xia", "wu", " ", "9", ":", "4", "0", "fcomma", "yi4", "yu2", "1", "6", ":", "4", "8", "hui", "fu", "dan", "xian">>, <<>>, 16, 48, 0>>,
     <<<<"fa", "bu2", "ri", "qi", "fcolon", "2", "0", "2", "5", "/", "8", "/", "1", "3", " ", "xia", "wu", " ", "9", ":", "4", "0">>, <<"hui", "fu", "xing", "shi3">>, 21, 40, 0>>,
     <<<<"fa", "bu2", "ri", "qi", ":", "2", "0", "2", "5", "/", "8", "/", "1", "3", " ", "shang", "wu", " ", "9", ":", "4", "0">>, <<"hui", "fu", "xing", "shi3">>, 9, 40, 0>>,
     <<<<"fa", "bu2", "ri", "qi", "fcolon", "2", "0", "2", "5", "/", "8", "/", "1", "3", " ", "xia", "wu", " ", "1", "2", ":", "0", "5">>, <<"hui", "fu", "xing", "shi3">>, 12, 5, 0>>,
     <<<<"wu2", "xiao4", "wen", "zi4">>, <<"hui", "fu", "xing", "shi3">>, 23, 59, 59>>}

\* <<text, title>>: resumed announcements whose clock time is hour 24
Hour24Cases == {<<<<"lie", "che", "ting", "shi3">>, <<"2", "4", "shi", "hui", "fu", "tong", "che">>>>, <<<<"yi4", "yu2", "2", "4", ":", "0", "0", "hui", "fu", "tong", "che">>, <<>>>>}

\* the <<text, title>> pairs submitted with the anchor date
TitledCases ==
    ConditionalCases \cup {<<c[1], c[2]>> : c \in PredictedCandidates} \cup ServiceCases
    \cup SystemCases \cup {<<c[1], c[2]>> : c \in ActualCases} \cup Hour24Cases
    \cup {<<t, ti>> : t \in TitledTexts, ti \in FutureTitles \cup {c[1] : c \in TimedTitles}}

\* a day in parentheses that is before the day of the publish date: the
\* first of the month announced on the last day of the month before, and a
\* 今(N)日 that names the day before
PastDayCases ==
    {Announcement(<<"ming", "(", "1", ")", "ri", "8", "shi", "hui", "fu", "xing", "shi3">>, <<>>, <<"2", "0", "2", "5", "/", "0", "8", "/", "3", "1">>),
     Announcement(<<"ming", "(", "1", ")", "ri", "1", "2", "shi", "qian", "ting", "shi3">>, <<>>, <<"2", "0", "2", "5", "/", "0", "8", "/", "3", "1">>),
     Announcement(<<"jin", "(", "1", "2", ")", "ri", "8", "shi", "hui", "fu", "xing", "shi3">>, <<>>, Anchor)}

\* <<text, days, minute>>: the clock time of the text has hour 24; it names
\* 00:minute of the day that many days after the anchor day
Hour24Texts ==
    {<<<<"yu", "ji", "2", "4", "shi", "hui", "fu", "xing", "shi3">>, 1, 0>>, <<<<"yu", "ji", "2", "4", ":", "3", "0", "hui", "fu", "xing", "shi3">>, 1, 30>>, <<<<"jin", "ri", "2", "4", "shi", "hui", "fu", "xing", "shi3">>, 1, 0>>,
     <<<<"2", "4", "shi", "qian", "ting", "shi3">>, 1, 0>>, <<<<"ming", "ri", "2", "4", "shi", "hui", "fu", "xing", "shi3">>, 2, 0>>, <<<<"jin", "(", "1", "3", ")", "ri", "2", "4", "shi", "hui", "fu", "xing", "shi3">>, 1, 0>>}

Announcements ==
    {Announcement(t, <<>>, Anchor) : t \in Texts \cup SingleTexts}
    \cup {Announcement(t, <<>>, pd) : t \in SingleTexts, pd \in OtherDates}
    \cup {Announcement(t, ti, Anchor) : t \in SingleTexts, ti \in OtherTitles}
    \cup {Announcement(c[1], c[2], Anchor) : c \in TitledCases}
    \cup PastDayCases
    \cup {Announcement(c[1], <<>>, Anchor) : c \in Hour24Texts}

\* the announcements processed in between
OtherAnnouncements ==
    {Announcement(<<"jin", "ri", "9", "shi", "hui", "fu">>, <<>>, <<"2", "0", "2", "5", "/", "0", "1", "/", "0", "2">>),
     Announcement(<<"yi4", "yu2", "7", ":", "0", "5", "hui", "fu", "tong", "che">>, <<"hui", "fu", "tong", "che">>, <<"2", "0", "2", "5", "/", "0", "3", "/", "0", "4">>)}

\* no call has returned yet
Unset == [k |-> "unset", dt |-> NoDT]

UnsetData == ExtractedData("Unset", "Unset", "Unset", <<>>, <<>>, Unset, Unset)

(***************************************************************************)
(* models.announcement and storage.json_storage.  A value of               *)
(* Optional[datetime] is None or Ret(dt).  A JSON document is written by   *)
(* its value: json.dump and json.load are inverse on strings, null, lists  *)
(* and objects; the datetimes are written as ISO 8601 strings and read     *)
(* back by parsing them.                                                   *)
(***************************************************************************)
\* the zone of a datetime read from an offset "+08:00"
FixedOffset8 == "UTC+08:00"

JNull == [j |-> "null", v |-> <<>>]

JStr(s) == [j |-> "str", v |-> s]

\* n written with w digits
Pad(n, w) == [i \in 1..w |-> DigitChar((n \div (10 ^ (w - i))) % 10)]

\* datetime.isoformat() without microseconds; "+08:00" for Asia/Taipei
isoformat(dt) ==
    Pad(dt.y, 4) \o <<"-">> \o Pad(dt.mo, 2) \o <<"-">> \o Pad(dt.d, 2) \o <<"T">>
    \o Pad(dt.h, 2) \o <<":">> \o Pad(dt.mi, 2) \o <<":">> \o Pad(dt.s, 2)
    \o (IF dt.tz \in {TAIPEI_TZ, FixedOffset8} THEN <<"+", "0", "8", ":", "0", "0">> ELSE <<>>)

\* json_encoders = {datetime: lambda v: v.isoformat() if v else None}
json_encoders(o) == IF o.k = "ret" THEN JStr(isoformat(o.dt)) ELSE JNull

iso_date == <<Grp(1, <<Rep(D, 4, 4)>>), Lit(<<"-">>), Grp(2, <<D2>>), Lit(<<"-">>), Grp(3, <<D2>>), Cls({"T", " "})>>

iso_time ==
    <<Grp(1, <<D2>>), Lit(<<":">>), Grp(2, <<D2>>), Lit(<<":">>), Grp(3, <<D2>>),
      Opt(<<Grp(4, <<Cls({"+", "-"}), D2, Lit(<<":">>), D2>>)>>)>>

\* the validation of a datetime field from an ISO 8601 string: an offset
\* becomes a fixed-offset zone
parse_datetime(s) ==
    LET On(rd, rt) ==
            IF rd.e # 12 \/ rt.e = 0 \/ rt.e # Len(s) + 1 THEN Raise
            ELSE LET md == [s |-> 1, e |-> rd.e, c |-> rd.c]
                     mt == [s |-> 12, e |-> rt.e, c |-> rt.c]
                     day == MkDateTime(IntGroup(s, md, 1), IntGroup(s, md, 2), IntGroup(s, md, 3), 0, 0)
                     zone == IF ~HasGroup(mt, 4) THEN "-"
                             ELSE IF Group(s, mt, 4) = <<"+", "0", "8", ":", "0", "0">> THEN FixedOffset8
                             ELSE "UTC+other"
                 IN IF day.k # "ret" THEN Raise
                    ELSE LET On2(o) == IF o.k # "ret" THEN Raise ELSE Ret([o.dt EXCEPT !.tz = zone])
                         IN On2(ReplaceTime(day.dt, IntGroup(s, mt, 1), IntGroup(s, mt, 2),
                                            IntGroup(s, mt, 3)))
    IN On(Match(s, iso_date, 1, NoCaps), IF Len(s) >= 12 THEN Match(s, iso_time, 12, NoCaps) ELSE [e |-> 0, c |-> NoCaps])

\* an Optional[datetime] field read from JSON
validate_optional_datetime(j) == IF j.j = "null" THEN None ELSE parse_datetime(j.v)

\* datetime.__eq__: two aware datetimes are equal when they are the same
\* instant; every zone of the model is at UTC+8, so the same instant is the
\* same wall clock
SameInstant(a, b) ==
    /\ (a.tz = "-") = (b.tz = "-")
    /\ <<a.y, a.mo, a.d, a.h, a.mi, a.s>> = <<b.y, b.mo, b.d, b.h, b.mi, b.s>>

TimeFields == {"predicted_resumption_time", "actual_resumption_time"}

\* the fields the class Announcement declares
AnnouncementFields == {"id", "title", "publish_date", "detail_url", "classification", "version_history"}

\* Announcement(**kwargs): a keyword argument the class does not declare is
\* ignored (pydantic's default for extra fields)
NewAnnouncement(kwargs) == [f \in AnnouncementFields |-> kwargs[f]]

\* object.attribute: an attribute the object does not have raises
GetAttr(obj, name) == IF name \in DOMAIN obj THEN obj[name] ELSE Raise

\* VersionEntry(scraped_at, content_html, content_hash, extracted_data)
VersionEntry(at, html, hash, e) ==
    [scraped_at |-> at, content_html |-> html, content_text |-> NoneV, content_hash |-> hash,
     extracted_data |-> e]

\* extracted_data = None
NoExtractedData == [none |-> TRUE]

\* ExtractedData.model_dump(mode='json')
dump_extracted(e) ==
    IF e = NoExtractedData THEN e
    ELSE [e EXCEPT !.predicted_resumption_time = json_encoders(@),
                   !.actual_resumption_time = json_encoders(@)]

\* VersionEntry.model_dump(mode='json')
dump_version(v) ==
    [v EXCEPT !.scraped_at = json_encoders(@), !.extracted_data = dump_extracted(@)]

\* Announcement.model_dump(mode='json'): the declared fields
model_dump(a) ==
    [a EXCEPT !.version_history = [i \in 1..Len(@) |-> dump_version(@[i])]]

\* ExtractedData(**item)
validate_extracted(j) ==
    IF j = NoExtractedData THEN j
    ELSE [j EXCEPT !.predicted_resumption_time = validate_optional_datetime(@),
                   !.actual_resumption_time = validate_optional_datetime(@)]

\* VersionEntry(**item)
validate_version(j) ==
    [j EXCEPT !.scraped_at = validate_optional_datetime(@), !.extracted_data = validate_extracted(@)]

\* Announcement(**item) of load
validate_announcement(j) ==
    NewAnnouncement([j EXCEPT !.version_history = [i \in 1..Len(@) |-> validate_version(@[i])]])

\* a datetime of the item cannot be parsed, or the required scraped_at is null
ValidationError(j) ==
    \E i \in 1..Len(j.version_history) :
        LET On(v) ==
                \/ v.scraped_at.k # "ret"
                \/ /\ v.extracted_data # NoExtractedData
                   /\ \E f \in TimeFields : v.extracted_data[f].k = "raise"
        IN On(validate_version(j.version_history[i]))

\* data/master.json does not exist; a file that exists is complete when
\* the whole JSON document has been written
NoFile == [exists |-> FALSE, items |-> <<>>, complete |-> TRUE]

\* JSONStorage._create_backup: the current file, if any, is copied
_create_backup(file, dir) == IF file.exists THEN Append(dir, file) ELSE dir

\* JSONStorage.save: the file written from the list
save(L) ==
    [exists |-> TRUE, items |-> [i \in 1..Len(L) |-> model_dump(L[i])], complete |-> TRUE]

\* JSONStorage.load: [] without file, when json.load fails on an incomplete
\* document or when an item fails validation
load(file) ==
    IF ~file.exists THEN <<>>
    ELSE IF ~file.complete THEN <<>>
    ELSE IF \E i \in 1..Len(file.items) : ValidationError(file.items[i]) THEN <<>>
    ELSE [i \in 1..Len(file.items) |-> validate_announcement(file.items[i])]

\* no announcement has been submitted to the parser
ParserStart ==
    /\ text = <<>>
    /\ title = <<>>
    /\ publish_date = Anchor
    /\ clock = 0
    /\ pc = "new"
    /\ round = 1
    /\ resolved = Unset
    /\ extracted = UnsetData
    /\ service = <<"Unset", "Unset">>
    /\ memo = [resolved |-> Unset, extracted |-> UnsetData, others |-> 0]

\* no process runs a storage call and nobody holds the lock
LockStart ==
    /\ lock = 0
    /\ proc = <<>>

\* HTTPClient.__init__: no request was made yet
NewClient(n) ==
    [pc |-> "idle", retry_attempts |-> n, attempt |-> 0, outcomes |-> <<>>, slept |-> <<>>,
     result |-> "unset", last_request_time |-> "None"]

HttpStart == http = NewClient(3)

\* no monitoring cycle runs
MonitorStart == mon = [pc |-> "off"]

\* the state of the storage after JSONStorage.__init__
StorageStart ==
    /\ given = <<>>
    /\ data = <<>>
    /\ master = NoFile
    /\ backups = <<>>
    /\ loaded = <<>>
    /\ spc = "idle"

Init ==
    /\ \E a \in Announcements :
           /\ text = a.text
           /\ title = a.title
           /\ publish_date = a.publish_date
    /\ clock = 0
    /\ pc = "new"
    /\ round = 1
    /\ resolved = Unset
    /\ extracted = UnsetData
    /\ service = <<"Unset", "Unset">>
    /\ memo = [resolved |-> Unset, extracted |-> UnsetData, others |-> 0]
    /\ StorageStart
    /\ LockStart
    /\ HttpStart
    /\ MonitorStart

\* parse_resumption_time(text, publish_date) is called and returns
CallResolver ==
    /\ pc = "new"
    /\ resolved' = parse_resumption_time(text, publish_date)
    /\ memo' = IF round = 1 THEN [memo EXCEPT !.resolved = resolved'] ELSE memo
    /\ pc' = "resolved"
    /\ UNCHANGED <<text, title, publish_date, clock, round, extracted, service>>
    /\ UNCHANGED notp

\* ContentParser.parse(text, publish_date, title) is called and returns
CallParse ==
    /\ pc = "resolved"
    /\ extracted' = parse(text, publish_date, title)
    /\ service' = parse_service(text, publish_date, title)
    /\ memo' = IF round = 1 THEN [memo EXCEPT !.extracted = extracted'] ELSE memo
    /\ pc' = "parsed"
    /\ UNCHANGED <<text, title, publish_date, clock, round, resolved>>
    /\ UNCHANGED notp

\* the system clock advances
Tick ==
    /\ pc = "parsed"
    /\ clock < MaxClock
    /\ clock' = clock + 1
    /\ UNCHANGED <<text, title, publish_date, pc, round, resolved, extracted, service, memo>>
    /\ UNCHANGED notp

\* another announcement is resolved and parsed in between
Interleave ==
    /\ pc = "parsed"
    /\ round < MaxRounds
    /\ \E o \in OtherAnnouncements :
           /\ resolved' = parse_resumption_time(o.text, o.publish_date)
           /\ extracted' = parse(o.text, o.publish_date, o.title)
           /\ service' = parse_service(o.text, o.publish_date, o.title)
    /\ memo' = [memo EXCEPT !.others = 1]
    /\ pc' = "between"
    /\ UNCHANGED <<text, title, publish_date, clock, round>>
    /\ UNCHANGED notp

\* the same announcement is submitted again
Resubmit ==
    /\ pc \in {"parsed", "between"}
    /\ round < MaxRounds
    /\ round' = round + 1
    /\ pc' = "new"
    /\ resolved' = Unset
    /\ extracted' = UnsetData
    /\ service' = <<"Unset", "Unset">>
    /\ UNCHANGED <<text, title, publish_date, clock, memo>>
    /\ UNCHANGED notp

Next == CallResolver \/ CallParse \/ Tick \/ Interleave \/ Resubmit

Spec == Init /\ [][Next]_vars

(***************************************************************************)
(* The storage and the calls made on it.  A caller constructs              *)
(* announcements, saves the list, loads the file and starts over with the  *)
(* file in place.                                                          *)
(***************************************************************************)
MaxLen == 2

MaxBackups == 1

T12 == [y |-> 2025, mo |-> 10, d |-> 22, h |-> 12, mi |-> 0, s |-> 0, tz |-> TAIPEI_TZ]

T14 == [y |-> 2025, mo |-> 10, d |-> 22, h |-> 14, mi |-> 0, s |-> 0, tz |-> TAIPEI_TZ]

\* <<id, version_history, <<predicted, actual>> >> of the constructor calls
Constructions ==
    {<<"test1", <<>>, <<Ret(T12), None>> >>,
     <<"test2", <<>>, <<None, Ret(T14)>> >>,
     <<"test1", <<VersionEntry(Ret(T14), "<p>a</p>", "md5:a", NoExtractedData)>>,
       <<None, Ret(T14)>> >>,
     <<"test2", <<VersionEntry(Ret(T14), "<p>b</p>", "md5:b",
                               ExtractedData(NoneV, NoneV, "Resumed_Normal", <<>>, <<>>,
                                             Ret(T12), None))>>,
       <<Ret(T12), None>> >>,
     <<"test2", <<VersionEntry(Ret(T14), "<p>c</p>", "md5:c",
                               ExtractedData(NoneV, NoneV, "Suspended", <<>>, <<>>, None, None))>>,
       <<None, None>> >>}

\* the keyword arguments of the constructor calls
Kwargs ==
    {[id |-> c[1], title |-> "Test", publish_date |-> "2025/10/22",
      detail_url |-> "http://test.com",
      classification |-> [category |-> "Disruption_Resumption", keywords |-> <<"test">>,
                          event_group_id |-> "20251022_Test"],
      version_history |-> c[2],
      predicted_resumption_time |-> c[3][1], actual_resumption_time |-> c[3][2]] :
         c \in Constructions}

StorageInit ==
    /\ ParserStart
    /\ StorageStart
    /\ LockStart
    /\ HttpStart
    /\ MonitorStart

\* Announcement(**kwargs) is constructed and appended to the list
Construct ==
    /\ spc = "idle"
    /\ Len(data) < MaxLen
    /\ \E kw \in Kwargs :
           /\ given' = Append(given, kw)
           /\ data' = Append(data, NewAnnouncement(kw))
    /\ UNCHANGED <<master, backups, loaded, spc>>
    /\ UNCHANGED nots

\* JSONStorage.save(data) is called and returns
Save ==
    /\ spc = "idle"
    /\ Len(backups) < MaxBackups \/ ~master.exists
    /\ backups' = _create_backup(master, backups)
    /\ master' = save(data)
    /\ spc' = "saved"
    /\ UNCHANGED <<given, data, loaded>>
    /\ UNCHANGED nots

\* JSONStorage.load() is called and returns
Load ==
    /\ spc \in {"idle", "saved"}
    /\ loaded' = load(master)
    /\ spc' = IF spc = "saved" THEN "loaded" ELSE spc
    /\ UNCHANGED <<given, data, master, backups>>
    /\ UNCHANGED nots

\* the caller starts another list
NewList ==
    /\ spc = "loaded"
    /\ given' = <<>>
    /\ data' = <<>>
    /\ spc' = "idle"
    /\ UNCHANGED <<master, backups, loaded>>
    /\ UNCHANGED nots

StorageNext == Construct \/ Save \/ Load \/ NewList

StorageSpec == StorageInit /\ [][StorageNext]_vars

(***************************************************************************)
(* Processes that share data/master.json and data/master.json.lock.  Each  *)
(* runs one call of add_announcement or append_version; the steps are the  *)
(* file and lock operations of load and save.  A process may stop at any   *)
(* step; the operating system then releases the lock it holds.             *)
(***************************************************************************)
Procs == {1, 2}

MaxCrashes == 1

\* an announcement with the fields the monitor gives it
StoredAnnouncement(id, history) ==
    NewAnnouncement([id |-> id, title |-> "Test", publish_date |-> "2025/10/22",
                     detail_url |-> "http://test.com",
                     classification |-> [category |-> "Disruption_Resumption",
                                         keywords |-> <<"test">>,
                                         event_group_id |-> "20251022_Test"],
                     version_history |-> history])

Version(html, hash) == VersionEntry(Ret(T14), html, hash, NoExtractedData)

\* the calls a process may run
Calls ==
    {[op |-> "add", a |-> StoredAnnouncement(id, <<Version("<p>n</p>", "md5:n")>>)] :
         id \in {"test1", "test2"}}
    \cup {[op |-> "append", news_no |-> "test0", version |-> Version("<p>u</p>", h)] :
              h \in {"md5:u1", "md5:u2"}}

\* data/master.json when the processes start
StartFiles == {NoFile, save(<<StoredAnnouncement("test0", <<Version("<p>o</p>", "md5:o")>>)>>)}

LockInit ==
    /\ ParserStart
    /\ given = <<>> /\ data = <<>> /\ loaded = <<>> /\ spc = "idle"
    /\ backups = <<>>
    /\ HttpStart
    /\ MonitorStart
    /\ lock = 0
    /\ \E f \in StartFiles, c1 \in Calls, c2 \in Calls :
           /\ master = f
           /\ proc = [p \in Procs |->
                         [pc |-> "start", call |-> IF p = 1 THEN c1 ELSE c2, data |-> <<>>,
                          before |-> <<>>, wrote |-> FALSE]]

\* version_history.append(version) on the announcement with the id, if any
AppendTo(L, news_no, version) ==
    LET found == {i \in 1..Len(L) : L[i].id = news_no}
        first == CHOOSE i \in found : \A j \in found : i <= j
    IN [i \in 1..Len(L) |->
           IF i = first THEN [L[i] EXCEPT !.version_history = Append(@, version)] ELSE L[i]]

\* add_announcement and append_version after data = self.load(): return
\* without saving when the id exists (add) or is not found (append), else
\* change the list and go on to save it
AfterLoad(r, L) ==
    IF r.call.op = "add"
    THEN IF \E i \in 1..Len(L) : L[i].id = r.call.a.id
         THEN [r EXCEPT !.pc = "done", !.data = L]
         ELSE [r EXCEPT !.pc = "backup", !.data = Append(L, r.call.a)]
    ELSE IF \E i \in 1..Len(L) : L[i].id = r.call.news_no
         THEN [r EXCEPT !.pc = "backup", !.data = AppendTo(L, r.call.news_no, r.call.version)]
         ELSE [r EXCEPT !.pc = "done", !.data = L]

\* the call begins; load returns [] at once when the file does not exist
Begin(p) ==
    /\ proc[p].pc = "start"
    /\ proc' = [proc EXCEPT ![p] =
                   IF master.exists
                   THEN [@ EXCEPT !.pc = "load_lock", !.before = load(master)]
                   ELSE AfterLoad(@, <<>>)]
    /\ UNCHANGED <<lock, master, backups>>
    /\ UNCHANGED notc

\* FileLock(self.lock_file, timeout=10) is acquired, in load or in save
Acquire(p) ==
    /\ proc[p].pc \in {"load_lock", "save_lock"}
    /\ lock = 0
    /\ lock' = p
    /\ proc' = [proc EXCEPT ![p].pc = IF @ = "load_lock" THEN "load_read" ELSE "save_open"]
    /\ UNCHANGED <<master, backups>>
    /\ UNCHANGED notc

\* the lock stays held for 10 seconds: load logs the exception and returns
\* [], save raises it
Timeout(p) ==
    /\ proc[p].pc \in {"load_lock", "save_lock"}
    /\ lock # 0
    /\ proc' = [proc EXCEPT ![p] =
                   IF @.pc = "load_lock" THEN AfterLoad(@, <<>>) ELSE [@ EXCEPT !.pc = "raised"]]
    /\ UNCHANGED <<lock, master, backups>>
    /\ UNCHANGED notc

\* load reads and validates the file and releases the lock
LoadRead(p) ==
    /\ proc[p].pc = "load_read"
    /\ proc' = [proc EXCEPT ![p] = AfterLoad(@, load(master))]
    /\ lock' = 0
    /\ UNCHANGED <<master, backups>>
    /\ UNCHANGED notc

\* save copies the current file to the backup directory, before the lock
CreateBackup(p) ==
    /\ proc[p].pc = "backup"
    /\ backups' = _create_backup(master, backups)
    /\ proc' = [proc EXCEPT ![p].pc = "save_lock"]
    /\ UNCHANGED <<lock, master>>
    /\ UNCHANGED notc

\* open(self.output_file, "w") truncates the file
SaveOpen(p) ==
    /\ proc[p].pc = "save_open"
    /\ master' = [exists |-> TRUE, items |-> <<>>, complete |-> FALSE]
    /\ proc' = [proc EXCEPT ![p].pc = "save_write"]
    /\ UNCHANGED <<lock, backups>>
    /\ UNCHANGED notc

\* json.dump has written the whole document; the file is closed and the
\* lock released
SaveWrite(p) ==
    /\ proc[p].pc = "save_write"
    /\ master' = save(proc[p].data)
    /\ lock' = 0
    /\ proc' = [proc EXCEPT ![p].pc = "done", ![p].wrote = TRUE]
    /\ UNCHANGED backups
    /\ UNCHANGED notc

\* the process stops; its lock is released
Crash(p) ==
    /\ proc[p].pc \notin {"done", "raised", "crashed"}
    /\ Cardinality({q \in Procs : proc[q].pc = "crashed"}) < MaxCrashes
    /\ proc' = [proc EXCEPT ![p].pc = "crashed"]
    /\ lock' = IF lock = p THEN 0 ELSE lock
    /\ UNCHANGED <<master, backups>>
    /\ UNCHANGED notc

LockNext ==
    \E p \in Procs :
        \/ Begin(p)
        \/ Acquire(p)
        \/ Timeout(p)
        \/ LoadRead(p)
        \/ CreateBackup(p)
        \/ SaveOpen(p)
        \/ SaveWrite(p)
        \/ Crash(p)

LockSpec == LockInit /\ [][LockNext]_vars

(***************************************************************************)
(* HTTPClient.get: one step per iteration of its retry loop.  The outcome  *)
(* of session.get is the environment's choice: a response with a status    *)
(* code or one of the exceptions the loop distinguishes.                   *)
(***************************************************************************)
MaxRetryAttempts == 3

RetryAttempts == 0..MaxRetryAttempts

Outcomes ==
    {[exc |-> "none", status |-> st] : st \in {200, 301, 404, 503}}
    \cup {[exc |-> e, status |-> 0] : e \in {"Timeout", "ConnectionError", "Exception"}}

\* response.raise_for_status() raises HTTPError for a 4xx or 5xx status
raise_for_status(status) == IF 400 <= status /\ status < 600 THEN "HTTPError" ELSE "ok"

backoff_doubled(attempt) == 2 ^ attempt

backoff_time(attempt) == 2 ^ (attempt - 1)

HttpInit ==
    /\ ParserStart
    /\ StorageStart
    /\ LockStart
    /\ MonitorStart
    /\ \E n \in RetryAttempts : http = NewClient(n)

\* get(url) is called; range(1, retry_attempts + 1) is empty when
\* retry_attempts < 1 and the call returns None at once
Get ==
    /\ http.pc \in {"idle", "returned"}
    /\ http' = IF http.retry_attempts < 1
               THEN [http EXCEPT !.pc = "returned", !.attempt = 0, !.outcomes = <<>>,
                                 !.slept = <<>>, !.result = "None"]
               ELSE [http EXCEPT !.pc = "request", !.attempt = 1, !.outcomes = <<>>,
                                 !.slept = <<>>, !.result = "unset"]
    /\ UNCHANGED noth

\* one iteration of the loop: rate limit, request, raise_for_status, and the
\* except clause of the exception raised
Request(o) ==
    /\ http.pc = "request"
    /\ LET e == IF o.exc # "none" THEN o.exc ELSE raise_for_status(o.status)
           seen == [http EXCEPT !.outcomes = Append(@, o), !.last_request_time = "set"]
       IN http' = IF e = "ok"
                  THEN [seen EXCEPT !.pc = "returned", !.result = "response"]
                  ELSE IF e = "HTTPError"
                       THEN [seen EXCEPT !.pc = "returned", !.result = "None"]
                       ELSE IF http.attempt < http.retry_attempts
                            THEN [seen EXCEPT !.slept = Append(@, backoff_time(http.attempt)),
                                              !.attempt = @ + 1]
                            ELSE [seen EXCEPT !.pc = "returned", !.result = "None"]
    /\ UNCHANGED noth

HttpNext == Get \/ \E o \in Outcomes : Request(o)

HttpSpec == HttpInit /\ [][HttpNext]_vars

(***************************************************************************)
(* orchestrator.monitor.run_monitoring_cycle, run by one process: the      *)
(* listing and the storage are read once, then one step per listed item.   *)
(* An item is written by its news_no; its title, publish date and URL are  *)
(* those of StoredAnnouncement.  A detail page is written by the content   *)
(* the scraper selects from it and the record ContentParser.parse returns  *)
(* for that content, the item's publish date and its title.                *)
(***************************************************************************)
MaxCycles == 2

RequiredParameters == 2

NoPage == [ok |-> FALSE, html |-> "", parsed |-> EmptyExtractedData]

\* pages without train vocabulary: every field of the parsed record is empty
Pages == {[ok |-> TRUE, html |-> h, parsed |-> EmptyExtractedData] :
              h \in {"<div>o</div>", "<div>u</div>", "<div>n</div>"}}

Listings ==
    {<<>>, <<"test0">>, <<"test1">>, <<"test0", "test1">>, <<"test1", "test0">>,
     <<"test1", "test1">>}

\* "md5:" and the MD5 digest of the UTF-8 bytes, for the contents of Pages
compute_hash(html) ==
    CASE html = "<div>o</div>" -> "md5:255d1b564079045c7697b1425f2363e9"
      [] html = "<div>u</div>" -> "md5:e1cb512a8900fc84ccd83b2ca523e39f"
      [] html = "<div>n</div>" -> "md5:58f7083566a59264db179aae70ae4b75"
      [] OTHER -> "md5:d41d8cd98f00b204e9800998ecf8427e"

\* DetailScraper.scrape_detail: None when the page could not be fetched,
\* else the content and its hash
scrape_detail(page) ==
    IF ~page.ok THEN [ok |-> FALSE, html |-> "", hash |-> ""]
    ELSE [ok |-> TRUE, html |-> page.html, hash |-> compute_hash(page.html)]

\* a call content_parser.parse(*args), where args[1] is the page: parse
\* has the required parameters html and publish_date and the optional
\* title, and a call that leaves a required parameter unbound raises
\* TypeError
parse_call(args) ==
    IF Len(args) < RequiredParameters \/ Len(args) > RequiredParameters + 1
    THEN [k |-> "raise", e |-> NoExtractedData]
    ELSE [k |-> "ret", e |-> args[1].parsed]

\* add_announcement and append_version when no other process uses the file
StorageCall(c, file, dir) ==
    LET r == AfterLoad([pc |-> "start", call |-> c, data |-> <<>>], load(file))
    IN IF r.pc = "backup"
       THEN [master |-> save(r.data), backups |-> _create_backup(file, dir)]
       ELSE [master |-> file, backups |-> dir]

\* data/master.json before the first cycle
MonitorFiles ==
    {NoFile,
     save(<<StoredAnnouncement("test0",
              <<Version("<div>o</div>", compute_hash("<div>o</div>"))>>)>>)}

MonitorInit ==
    /\ ParserStart
    /\ given = <<>> /\ data = <<>> /\ loaded = <<>> /\ spc = "idle"
    /\ backups = <<>>
    /\ LockStart
    /\ HttpStart
    /\ master \in MonitorFiles
    /\ mon = [pc |-> "off", cycle |-> 0, all_items |-> <<>>, i |-> 1, existing |-> <<>>,
              new_count |-> 0, updated_count |-> 0, log |-> <<>>]

\* steps 1 and 2: the pages of the listing are scraped and the existing
\* data is loaded once
StartCycle(listing) ==
    /\ mon.pc \in {"off", "done"}
    /\ mon.cycle < MaxCycles
    /\ mon' = [pc |-> "items", cycle |-> mon.cycle + 1, all_items |-> listing, i |-> 1,
               existing |-> load(master), new_count |-> 0, updated_count |-> 0, log |-> <<>>]
    /\ UNCHANGED <<master, backups>>
    /\ UNCHANGED notm

\* step 3 for one item, with the page its detail URL delivers; any
\* exception skips the item
CheckItem(page) ==
    /\ mon.pc = "items"
    /\ mon.i <= Len(mon.all_items)
    /\ LET news_no == mon.all_items[mon.i]
           found == {k \in 1..Len(mon.existing) : mon.existing[k].id = news_no}
           existing == mon.existing[CHOOSE k \in found : \A j \in found : j <= k]
           detail_result == scrape_detail(page)
           extracted_data == parse_call(<<page>>)
           version == VersionEntry(Ret(T14), detail_result.html, detail_result.hash,
                                   extracted_data.e)
           seen == [mon EXCEPT !.i = @ + 1,
                               !.log = Append(@, [news_no |-> news_no, new |-> found = {},
                                                  page |-> page])]
           added == StorageCall([op |-> "add", a |-> StoredAnnouncement(news_no, <<version>>)],
                                master, backups)
           appended == StorageCall([op |-> "append", news_no |-> news_no, version |-> version],
                                   master, backups)
       IN IF ~detail_result.ok
          THEN mon' = seen /\ UNCHANGED <<master, backups>>
          ELSE IF found = {}
          THEN IF extracted_data.k = "raise"
               THEN mon' = seen /\ UNCHANGED <<master, backups>>
               ELSE /\ mon' = [seen EXCEPT !.new_count = @ + 1]
                    /\ master' = added.master
                    /\ backups' = added.backups
          ELSE IF existing.version_history = <<>>
          THEN mon' = seen /\ UNCHANGED <<master, backups>>
          ELSE IF detail_result.hash
                      = existing.version_history[Len(existing.version_history)].content_hash
          THEN mon' = seen /\ UNCHANGED <<master, backups>>
          ELSE IF extracted_data.k = "raise"
          THEN mon' = seen /\ UNCHANGED <<master, backups>>
          ELSE /\ mon' = [seen EXCEPT !.updated_count = @ + 1]
               /\ master' = appended.master
               /\ backups' = appended.backups
    /\ UNCHANGED notm

\* every item was checked; the counts are logged and the client is closed
FinishCycle ==
    /\ mon.pc = "items"
    /\ mon.i > Len(mon.all_items)
    /\ mon' = [mon EXCEPT !.pc = "done"]
    /\ UNCHANGED <<master, backups>>
    /\ UNCHANGED notm

MonitorNext ==
    \/ \E listing \in Listings : StartCycle(listing)
    \/ \E page \in Pages \cup {NoPage} : CheckItem(page)
    \/ FinishCycle

MonitorSpec == MonitorInit /\ [][MonitorNext]_vars

(***************************************************************************)
(* Properties of the resolver and of the parser                            *)
(***************************************************************************)
\* the outcome of parsing the announcement's publish_date
RefDate == Strptime(ReplaceSlash(publish_date))

\* resolved holds what parse_resumption_time returned for this announcement
HasResolved == pc \in {"resolved", "parsed"}

\* extracted holds what parse returned for this announcement
HasParsed == pc = "parsed"

\* hour:minute:00 on the anchor day
AnchorAt(hour, minute) == ReplaceTime(RefDate.dt, hour, minute, 0)

\* hour:minute:00 on the day after the anchor day
NextDayAt(hour, minute) == ReplaceTime(PlusOneDay(RefDate.dt), hour, minute, 0)

\* C1: whenever parse_resumption_time has returned, for any text (the empty
\* one included) and any publish_date string (a date or not), it has returned
\* None or an instant that carries the Asia/Taipei zone; no exception has
\* reached the caller.
C1_ResolverIsTotal ==
    pc # "new" =>
        /\ resolved.k \in {"ret", "none"}
        /\ resolved.k = "ret" =>
               /\ resolved.dt.tz = TAIPEI_TZ
               /\ ValidDate(resolved.dt.y, resolved.dt.mo, resolved.dt.d)
               /\ ValidTime(resolved.dt.h, resolved.dt.mi, resolved.dt.s)

\* the resolver has returned None for a text with a publish_date that is no date
C1_Witness ==
    /\ pc = "resolved"
    /\ text = <<"jin", "ri", "1", "9", ":", "0", "0", "hui", "fu">>
    /\ RefDate.k = "raise"
    /\ resolved = None

\* the recognizers from n on, an internal failure of one of them taken as
\* "this recognizer does not match"
RECURSIVE FallThroughFrom(_, _, _)
FallThroughFrom(t, ref, n) ==
    IF n > NumRecognizers THEN None
    ELSE LET On(o) == IF o.k \in {"fall", "raise"} THEN FallThroughFrom(t, ref, n + 1) ELSE o
         IN On(Recognizer(n, t, ref))

\* C2: a recognizer whose trigger matches but whose instant cannot be computed
\* (hour 25, hour 24 after 明日, an invalid day) counts as not matching, and
\* the next recognizers in priority order still determine the result.
C2_LocalFailureFallsThrough ==
    (HasResolved /\ RefDate.k = "ret") =>
        resolved = FallThroughFrom(StripAdmin(text), RefDate.dt, 1)

C4_PrecedenceByRuleOrder ==
    (HasResolved /\ publish_date = Anchor) =>
        /\ text = Join(<<"ming", "ri", "8", "shi", "hui", "fu">>, <<"jin", "ri", "1", "9", ":", "0", "0", "hui", "fu">>) => resolved = AnchorAt(19, 0)
        /\ text = Join(<<"jin", "ri", "1", "9", ":", "0", "0", "hui", "fu">>, <<"ming", "ri", "8", "shi", "hui", "fu">>) => resolved = AnchorAt(19, 0)
        /\ text = Join(<<"jin", "ri", "1", "4", "shi", "fa", "bu2">>, <<"jin", "ri", "1", "9", ":", "0", "0", "hui", "fu">>) => resolved = AnchorAt(19, 0)

\* the administrative clauses and the clock times they carry
AdminClauses == {<<"fa", "sheng", "shi", "jian", "fcolon", "1", "1", "4", "nian", "4", "yue", "1", "2", "ri", "1", "6", "shi", "0", "5", "fen">>, <<"fa", "bu", "ri", "qi", "fcolon", "2", "0", "2", "5", "/", "7", "/", "8", " ", "xia", "wu", " ", "4", ":", "5", "5">>}

AdminTimes == {<<16, 5>>, <<4, 55>>, <<16, 55>>}

\* C5: the clock time of a 發生時間 or 發佈日期 clause is never returned as the
\* resumption time, whatever follows the clause.
C5_AdminTimestampsNeverLeak ==
    (HasResolved /\ \E a \in AdminClauses, i \in 1..Len(Clauses) : text = Join(a, Clauses[i])) =>
        ~(resolved.k = "ret" /\ <<resolved.dt.h, resolved.dt.mi>> \in AdminTimes)

\* the completion clauses 已於 T1 恢復 with their times T1
CompletionClauses == {<<<<"yi4", "yu2", "1", "6", ":", "4", "8", "hui", "fu", "dan", "xian">>, 16, 48>>, <<<<"yi4", "yu2", "1", "6", "shi", "hui", "fu", "dan", "xian">>, 16, 0>>}

\* C6: a text with a completion clause at T1 and a prediction clause at T2
\* (18:00) yields actual = T1 and predicted = T2, both on the anchor day.
C6_PhasedRecovery ==
    \A c \in CompletionClauses :
        (/\ HasParsed
         /\ publish_date = Anchor
         /\ title = <<>>
         /\ text \in {Join(c[1], <<"yu", "ji", "1", "8", "shi", "hui", "fu", "shuang", "xian">>), Join(<<"yu", "ji", "1", "8", "shi", "hui", "fu", "shuang", "xian">>, c[1])}) =>
            /\ extracted.actual_resumption_time = AnchorAt(c[2], c[3])
            /\ extracted.predicted_resumption_time = AnchorAt(18, 0)

\* the two mentions in one order or the other
TwoRecoveries ==
    {Join(<<"1", "6", ":", "5", "0", "hui", "fu", "dan", "xian", "shuang", "xiang", "tong", "che">>, <<"1", "7", ":", "0", "0", "hui", "fu", "shuang", "xiang", "tong", "che">>),
     Join(<<"1", "7", ":", "0", "0", "hui", "fu", "shuang", "xiang", "tong", "che">>, <<"1", "6", ":", "5", "0", "hui", "fu", "dan", "xian", "shuang", "xiang", "tong", "che">>)}

\* C7: of several resumption mentions the earliest clock time is taken, in
\* the resolver and in the actual role, in whichever order they appear.
C7_EarliestWins ==
    (publish_date = Anchor /\ title = <<>>) =>
        /\ (HasResolved /\ text \in TwoRecoveries) => resolved = AnchorAt(16, 50)
        /\ (HasParsed /\ text \in TwoRecoveries) =>
               extracted.actual_resumption_time = AnchorAt(16, 50)
        /\ (HasResolved /\ text = <<"1", "7", ":", "0", "0", "dun", "1", "6", ":", "5", "0", "hui", "fu", "tong", "che">>) => resolved = AnchorAt(16, 50)

\* C8: X時前停駛 and X時以前停駛 resolve to X o'clock of the anchor day (hour
\* 24 being midnight of the next day); X時以前正常行駛 yields nothing.
C8_BeforeAfterAsymmetry ==
    \A x \in BoundaryHours :
        (HasResolved /\ RefDate.k = "ret") =>
            /\ text \in {SuspendedBefore(x), SuspendedBeforeYi(x)} =>
                   resolved = ClockOn(RefDate.dt, x, 0)
            /\ text = NormalBefore(x) => resolved = None

\* the texts with the prediction marker and a first-train resumption
MarkerAndFirstTrain ==
    {Join(<<"yu", "ji", "1", "8", ":", "3", "0", "qiang", "tong">>, c) : c \in {<<"shou", "ban", "che", "hui", "fu", "xing", "shi3">>, <<"ming", "(", "3", "1", ")", "ri", "shou", "ban", "che", "hui", "fu", "xing", "shi3">>}}
    \cup {Join(c, <<"yu", "ji", "1", "8", ":", "3", "0", "qiang", "tong">>) : c \in {<<"shou", "ban", "che", "hui", "fu", "xing", "shi3">>, <<"ming", "(", "3", "1", ")", "ri", "shou", "ban", "che", "hui", "fu", "xing", "shi3">>}}

\* C9: with a prediction marker time and a first-train resumption in the
\* text, the resolver returns the first train's 05:30, not the marker's time.
C9_FirstTrainOverride ==
    (HasResolved /\ publish_date = Anchor /\ text \in MarkerAndFirstTrain) =>
        /\ resolved.k = "ret"
        /\ resolved.dt.h = 5
        /\ resolved.dt.mi = 30

\* the 明(31)日 texts with the clock time each one states
ParentheticalTexts ==
    {<<<<"ming", "(", "3", "1", ")", "ri", "8", "shi", "hui", "fu">>, 8, 0>>, <<<<"ming", "(", "3", "1", ")", "ri", "shou", "ban", "che", "hui", "fu", "xing", "shi3">>, 5, 30>>,
     <<<<"ming", "(", "3", "1", ")", "ri", "mo", "ban", "che", "hui", "fu", "xing", "shi3">>, 23, 30>>}

MonthDayRecognizers == {7, 10, 15}

\* C11: a recognizer that resolves M月D日 returns an instant of the anchor's
\* year that does not precede the anchor's midnight; a text stating month M,
\* day D and a time resolves to exactly that instant of the anchor's year when
\* it is not before the anchor's midnight, and otherwise the instant is
\* rejected and no instant before the anchor is returned.
C11_MonthDayInAnchorYear ==
    (HasResolved /\ RefDate.k = "ret") =>
        /\ \A n \in MonthDayRecognizers :
               LET On(o) == /\ o.k \in {"ret", "fall"}
                            /\ o.k = "ret" => (o.dt.y = RefDate.dt.y /\ ~DTLess(o.dt, RefDate.dt))
               IN On(Recognizer(n, StripAdmin(text), RefDate.dt))
        /\ \A p \in MonthDayTexts :
               text = p[1] =>
                   LET On(r) == IF r.k = "ret" /\ ~DTLess(r.dt, RefDate.dt)
                                THEN resolved = r
                                ELSE ~(resolved.k = "ret" /\ DTLess(resolved.dt, RefDate.dt))
                   IN On(MkDateTime(RefDate.dt.y, p[2], p[3], p[4], p[5]))

\* 預計8月13日12時前恢復 on 13 August has resolved to 13 August 12:00
C11_Witness ==
    /\ pc = "resolved"
    /\ text = <<"yu", "ji", "8", "yue", "1", "3", "ri", "1", "2", "shi", "qian", "hui", "fu">>
    /\ publish_date = Anchor
    /\ resolved.k = "ret"
    /\ <<resolved.dt.y, resolved.dt.mo, resolved.dt.d, resolved.dt.h>> = <<2025, 8, 13, 12>>

\* C12: a resumption statement qualified by uncertainty or conditional
\* language (俟…後, 陸續, 視…而定, 待…確認) is voided by every recognizer: a
\* text whose only resumption statement is so qualified resolves to None.
C12_UncertaintyAlwaysVoids ==
    (HasResolved /\ text \in UncertainTexts) => resolved = None

\* the completion language the parser looks for in the text, in the predicted
\* role or in the actual role
CompletionAssertion(t) ==
    FoundAny(t, actual_completion_patterns) \/ FoundAny(t, resumed_keywords_content)

\* C13: when the text carries a completion assertion and no prediction marker
\* (預計/預估) anywhere, parse leaves predicted_resumption_time None, whatever
\* the resolver finds in the text.
C13_PredictedSuppression ==
    (/\ HasParsed
     /\ CompletionAssertion(get_text(text))
     /\ ~Found(get_text(text), prediction_marker)) =>
        extracted.predicted_resumption_time = None

\* C14: actual_resumption_time has a value only if the title or the text
\* carries a completion assertion; a title or text whose resumption language
\* is only conditional (…後，恢復, 俟…後…恢復) yields none; a clock time of the
\* text with 預計/預估 in the 20 characters before it is not returned.
C14_ActualNeedsCompletion ==
    HasParsed =>
        /\ extracted.actual_resumption_time.k = "ret" =>
               \/ AnyIn(title, resumed_keywords_title)
               \/ FoundAny(get_text(text), resumed_keywords_content)
        /\ <<text, title>> \in ConditionalCases => extracted.actual_resumption_time = None
        /\ \A c \in PredictedCandidates :
               (text = c[1] /\ title = c[2] /\ publish_date = Anchor) =>
                   extracted.actual_resumption_time # AnchorAt(c[3], c[4])

\* C15: under a title with a future-tense marker followed by 恢復 (明日,
\* 明(N)日, 預計, 預估) actual_resumption_time is None whatever times the title
\* and the text carry; under a title with a clock time and no such marker the
\* title's time is returned, not the time of the text.
C15_FutureTitleRejectsActual ==
    (HasParsed /\ publish_date = Anchor /\ text \in TitledTexts) =>
        /\ title \in FutureTitles => extracted.actual_resumption_time = None
        /\ \A c \in TimedTitles :
               title = c[1] => extracted.actual_resumption_time = AnchorAt(c[2], c[3])

\* the service type the priority shuttle > partial > normal gives for a text
\* under a title
ExpectedServiceType(t, ti) ==
    LET On(full_text) ==
            IF /\ FoundAny(full_text, shuttle_patterns)
               /\ ~FoundAny(full_text, cancellation_patterns)
               /\ ~(Found(ti, title_resumption_pattern) /\ ~AnyIn(ti, title_shuttle_keywords))
            THEN "shuttle_service"
            ELSE IF \E n \in 1..Len(partial_patterns) : Found(full_text, partial_patterns[n][1])
            THEN "partial_operation"
            ELSE "normal_train"
    IN On(ti \o <<" ">> \o t)

Extracted(t, pd, ti) ==
    ExtractedData(NoneV, _extract_event_type(t), _extract_status(t, ti), <<>>,
                  _extract_affected_stations(t), _extract_predicted_time(t, pd, ti),
                  _extract_actual_time(t, pd, ti))

\* C17: parse returns the empty record without applying any extractor if and
\* only if the title has system/website/ticketing vocabulary and the text has
\* no train-operations vocabulary; an announcement whose text mentions train
\* operations gets the record of the extractors.
C17_NonTrainFilter ==
    HasParsed =>
        IF AnyIn(title, system_keywords) /\ ~AnyIn(get_text(text), train_operation_keywords)
        THEN extracted = EmptyExtractedData
        ELSE extracted = Extracted(get_text(text), publish_date, title)

\* a temporal cue: a clock time (digits before ：, :, 時 or 點), 今日/本日/明日
\* with or without a day in parentheses, M月D日, 首班車/末班車, 凌晨
HasTemporalCue(t) ==
    \/ Found(t, <<D12, Cls({"fcolon", ":", "shi", "dian"})>>)
    \/ Found(t, <<Cls({"jin", "ben", "ming"}), Opt(<<Lit(<<"(">>), DPlus, Lit(<<")">>)>>), Lit(<<"ri">>)>>)
    \/ Found(t, <<D12, Lit(<<"yue">>), D12, Lit(<<"ri">>)>>)
    \/ AnyIn(t, {<<"shou", "ban", "che">>, <<"mo", "ban", "che">>, <<"ling", "chen">>})

\* C18: a text without temporal cue (no clock time, no 今日/明日/M月D日, no
\* 首班車/末班車, no 凌晨), the empty text included, resolves to None.
C18_NoCueNoMatch ==
    (HasResolved /\ ~HasTemporalCue(text)) => resolved = None

\* the text 無效文字 of the test suite has been resolved
C18_Witness ==
    /\ pc = "resolved"
    /\ text = <<"wu2", "xiao4", "wen", "zi4">>
    /\ ~HasTemporalCue(text)
    /\ resolved = None

\* the <<hour, minute>> of the occurrences of 今日/本日 + clock time in t that
\* the context filter of Pattern 1 does not void
UnvoidedSameDayTimes(t) ==
    LET ms == FindIter(t, pattern1, 1)
    IN {<<IntGroup(t, ms[i], 1), IntGroupOr0(t, ms[i], 2)>> :
            i \in {j \in 1..Len(ms) : ~AnyIn(After(t, ms[j], 20), exclusion_keywords_1)}}

\* C19: when 今日/本日 is followed by a clock time H[:MM] that its context
\* filter does not void and the prediction recognizer does not fire, the
\* text resolves to the anchor date at H:MM:00; every instant the resolver
\* returns is in the zone Asia/Taipei.
C19_SameDayAnchored ==
    (HasResolved /\ RefDate.k = "ret") =>
        /\ resolved.k = "ret" => resolved.dt.tz = TAIPEI_TZ
        /\ LET On(t, times) ==
                   (Pattern0(t, RefDate.dt) = Fall /\ times # {}) =>
                       \E c \in times : resolved = AnchorAt(c[1], c[2])
           IN On(StripAdmin(text),
                 {c \in UnvoidedSameDayTimes(StripAdmin(text)) : c[1] <= 23 /\ c[2] <= 59})

\* a time field keeps its value: non-null stays non-null and equal, null
\* stays null
Preserved(before, after) ==
    IF before.k = "ret" THEN after.k = "ret" /\ SameInstant(before.dt, after.dt)
    ELSE after = None

\* C20: after save(L) followed by load(), the loaded list has the length and
\* the order of L, and each announcement has the predicted_resumption_time
\* and actual_resumption_time it was given.
C20_StorageRoundTrip ==
    spc = "loaded" =>
        /\ Len(loaded) = Len(given)
        /\ \A i \in 1..Len(given) :
               /\ loaded[i].id = given[i].id
               /\ \A f \in TimeFields : Preserved(given[i][f], GetAttr(loaded[i], f))

\* the time field f of an announcement: that of the extracted data of its
\* latest version, None without one
StoredTime(a, f) ==
    LET On(h) ==
            IF h = <<>> THEN None
            ELSE IF h[Len(h)].extracted_data = NoExtractedData THEN None
            ELSE h[Len(h)].extracted_data[f]
    IN On(a.version_history)

\* an announcement of old with a non-null time field has it null in new
TimeFieldLoss(old, new) ==
    \E i \in 1..Len(old), j \in 1..Len(new), f \in TimeFields :
        /\ old[i].id = new[j].id
        /\ StoredTime(old[i], f).k = "ret"
        /\ StoredTime(new[j], f).k # "ret"

\* C21: the integrity validation raises when a time field that was non-null
\* becomes null, so a save that has returned never dropped a stored
\* predicted or actual resumption time.
C21_NoSilentTimeLoss ==
    (spc = "saved" /\ backups # <<>>) =>
        ~TimeFieldLoss(load(backups[Len(backups)]), load(master))

\* C22: save is atomic: whenever no process holds the lock, also after a
\* process has stopped in the middle of save, the data file is a complete
\* document, and no backup copy is a copy of a partially written file.
C22_AtomicSave ==
    /\ lock = 0 => master.complete
    /\ \A i \in 1..Len(backups) : backups[i].complete

\* the list holds what the call was to put into it
Effect(c, L) ==
    IF c.op = "add"
    THEN \E i \in 1..Len(L) : L[i] = c.a
    ELSE \E i \in 1..Len(L) :
             /\ L[i].id = c.news_no
             /\ \E k \in 1..Len(L[i].version_history) : L[i].version_history[k] = c.version

\* C29: when two processes run add_announcement with distinct ids or
\* append_version concurrently and both have saved, the stored data holds
\* the effect of both calls, in every interleaving.
C29_NoLostUpdate ==
    (/\ DOMAIN proc = Procs
     /\ proc[1].call # proc[2].call
     /\ \A p \in Procs : proc[p].pc = "done" /\ proc[p].wrote)
    => \A p \in Procs : Effect(proc[p].call, load(master))

\* b is stored in L with everything it had (versions may have been added)
StillStored(b, L) ==
    \E j \in 1..Len(L) :
        /\ L[j].id = b.id
        /\ [L[j] EXCEPT !.version_history = b.version_history] = b
        /\ Len(L[j].version_history) >= Len(b.version_history)
        /\ SubSeq(L[j].version_history, 1, Len(b.version_history)) = b.version_history

\* C30: after add_announcement(a) has returned, every announcement that was
\* stored when the call began is still stored, and at most one stored
\* announcement has each id, also when the load inside the call failed.
C30_AddOnlyGrows ==
    \A p \in DOMAIN proc :
        (proc[p].call.op = "add" /\ proc[p].pc = "done")
        => LET now == load(master)
           IN /\ \A i \in 1..Len(proc[p].before) : StillStored(proc[p].before[i], now)
              /\ \A i, j \in 1..Len(now) : now[i].id = now[j].id => i = j

\* the request failed in a way that get retries
Retriable(o) == o.exc # "none"

\* C23: one call of get issues at most retry_attempts requests and every
\* iteration brings it nearer to its return; a further request follows only
\* a Timeout, a ConnectionError or an unexpected exception, after a wait of
\* 2^(attempt-1) seconds; the call returns the response of the first request
\* that succeeds, None at once after an HTTP error status, and None when
\* all retry_attempts requests have failed.
C23_RetryContract ==
    LET n == http.retry_attempts
        r == http.outcomes
        K == Len(r)
    IN /\ K <= n
       /\ http.pc = "request" => (http.attempt = K + 1 /\ http.attempt <= n)
       /\ \A k \in 1..(K - 1) : Retriable(r[k])
       /\ Len(http.slept) = (IF http.pc = "returned" /\ K > 0 THEN K - 1 ELSE K)
       /\ \A k \in 1..Len(http.slept) : http.slept[k] = 2 ^ (k - 1)
       /\ http.pc = "returned" =>
              /\ http.result \in {"response", "None"}
              /\ http.result = "response" <=>
                     (K > 0 /\ r[K].exc = "none" /\ r[K].status < 400)
              /\ http.result = "None" <=>
                     \/ K = 0
                     \/ K > 0 /\ r[K].exc = "none" /\ r[K].status >= 400
                     \/ K = n /\ K > 0 /\ Retriable(r[K])

\* the third request succeeds after two failures and waits of 1 and 2 seconds
C23_Witness ==
    /\ http.pc = "returned"
    /\ http.result = "response"
    /\ Len(http.outcomes) = 3
    /\ http.slept = <<1, 2>>

\* the version history stored under the id in L, <<>> if there is none
HistoryOf(id, L) ==
    LET found == {k \in 1..Len(L) : L[k].id = id}
    IN IF found = {} THEN <<>> ELSE L[CHOOSE k \in found : TRUE].version_history

\* C24: at the end of a monitoring cycle every listed item whose id was not
\* in storage and whose detail page was fetched is stored as an announcement
\* with exactly one version entry, which carries the fetched content (of the
\* first fetch, when the id is listed twice) and its hash.
C24_NewAnnouncementsStored ==
    mon.pc = "done" =>
        \A k \in 1..Len(mon.log) :
            (/\ mon.log[k].new
             /\ mon.log[k].page.ok
             /\ \A j \in 1..(k - 1) : mon.log[j].news_no # mon.log[k].news_no)
            => LET h == HistoryOf(mon.log[k].news_no, load(master))
               IN /\ Len(h) = 1
                  /\ h[1].content_html = mon.log[k].page.html
                  /\ h[1].content_hash = compute_hash(mon.log[k].page.html)

\* C25: at the end of a monitoring cycle, an item that was in storage and
\* whose detail page was fetched has exactly one more version entry, with
\* the hash of the fetched content, if that hash differs from the hash of
\* its latest stored version, and the same version history if the hashes
\* are equal; and no version history ever holds two consecutive entries
\* with the same hash.
C25_ChangeDetectedByHash ==
    /\ LET now == load(master)
       IN \A a \in 1..Len(now) : \A v \in 1..(Len(now[a].version_history) - 1) :
              now[a].version_history[v].content_hash
                  # now[a].version_history[v + 1].content_hash
    /\ mon.pc = "done" =>
           \A k \in 1..Len(mon.log) :
               (~mon.log[k].new /\ mon.log[k].page.ok)
               => LET old == HistoryOf(mon.log[k].news_no, mon.existing)
                      h == HistoryOf(mon.log[k].news_no, load(master))
                      new_hash == compute_hash(mon.log[k].page.html)
                  IN IF new_hash # old[Len(old)].content_hash
                     THEN /\ Len(h) = Len(old) + 1
                          /\ SubSeq(h, 1, Len(old)) = old
                          /\ h[Len(h)].content_hash = new_hash
                     ELSE h = old

\* C26: when the title has a resumption keyword or the text a completion
\* pattern, and the title has no future indicator, the actual resumption
\* time of a train announcement with a valid publish date is never None; it
\* is the time of the title, else the earliest time of the text, else the
\* time of the 發佈日期 clause (下午 hours below 12 plus 12), else 23:59:59
\* of the publish date.
C26_ActualFallbackChain ==
    (/\ HasParsed
     /\ ~_is_non_train_announcement(title, get_text(text))
     /\ Strptime(ReplaceSlash(publish_date)).k = "ret"
     /\ AnyIn(title, resumed_keywords_title) \/ has_resumption_in_content(get_text(text))
     /\ ~FoundAny(title, future_indicators)) =>
        /\ extracted.actual_resumption_time.k = "ret"
        /\ \A c \in ActualCases :
               (text = c[1] /\ title = c[2] /\ publish_date = Anchor) =>
                   extracted.actual_resumption_time = ReplaceTime(RefDate.dt, c[3], c[4], c[5])

\* year, month and day as one number
DayKey(dt) == dt.y * 10000 + dt.mo * 100 + dt.d

\* C27: every instant parse_resumption_time returns is at or after local
\* midnight of the anchor date, whichever recognizer produced it, the
\* parenthetical-day forms 今(N)日 and 明(N)日 included.
C27_NotBeforeAnchor ==
    (HasResolved /\ resolved.k = "ret") =>
        DayKey(resolved.dt) >= DayKey(Strptime(ReplaceSlash(publish_date)).dt)

RECURSIVE DaysAfter(_, _)
DaysAfter(dt, n) == IF n = 0 THEN dt ELSE PlusOneDay(DaysAfter(dt, n - 1))

\* C28: a text whose deciding clock time has hour 24 (預計24時, 今日24時,
\* 24時前停駛, 明日24時, 今(N)日24時) resolves to 00:MM of the day after the day
\* the expression names, never to no-match.
C28_Hour24IsNextMidnight ==
    (HasResolved /\ publish_date = Anchor) =>
        \A c \in Hour24Texts :
            text = c[1] => resolved = ReplaceTime(DaysAfter(RefDate.dt, c[2]), 0, c[3], 0)

====
